---- MODULE Spec2Model ----
(***************************************************************************)
(* A model of the elliot orchestration kernel:                             *)
(*   - the plan tracker            src/elliot/plan.py   (plan_manager)     *)
(*   - the write-permission gate   src/elliot/tools.py  (confirm_write_... *)
(*     and the five gated tools)                                           *)
(*   - the sub-agent dispatcher    src/elliot/agent.py  (spawn_subagent)   *)
(*                                                                         *)
(* Python strings are sequences of one-character strings, so that strip()  *)
(* and lower() are computed and not assumed.  None is a value of its own.  *)
(***************************************************************************)
EXTENDS Integers, Sequences, FiniteSets, TLC

VARIABLES
    CURRENT_PLAN,      \* plan.py:18  the list of plan items
    PLAN_ID_COUNTER,   \* plan.py:19  the next value of count(1)
    issued,            \* ids returned by successful add calls, in call order
    event,             \* the last log_tool_event of plan_manager, and its render
    gate,              \* the gated tool invocation in progress (tools.py)
    world,             \* what the gated tools act on: commands run, the file
    spawn,             \* the spawn_subagent call in progress (agent.py)
    threads,           \* plan_manager calls running at the same time (plan.py)
    parked,            \* spawn_subagent calls waiting at their await (agent.py:60)
    elliot             \* the run_elliot call of this process (agent.py:109)

vars == <<CURRENT_PLAN, PLAN_ID_COUNTER, issued, event, gate, world, spawn, threads,
          parked, elliot>>
planVars == <<CURRENT_PLAN, PLAN_ID_COUNTER, issued, event, threads>>
gateVars == <<gate, world>>

----------------------------------------------------------------------------
(* Bounds of the model *)

\* add is not taken once the counter has passed MaxId
MaxId == 2
\* no history entry is appended once the plan holds MaxEntries of them
MaxEntries == 2

----------------------------------------------------------------------------
(* Python values *)

None == <<"None">>

\* bool(s) of an Optional[str]
Truthy(s) == s # None /\ s # <<>>

IsSpace(c) == c = " "

RECURSIVE lstrip(_)
lstrip(s) == IF s # <<>> /\ IsSpace(Head(s)) THEN lstrip(Tail(s)) ELSE s

RECURSIVE rstrip(_)
rstrip(s) ==
    IF s # <<>> /\ IsSpace(s[Len(s)]) THEN rstrip(SubSeq(s, 1, Len(s) - 1)) ELSE s

\* str.strip()
strip(s) == rstrip(lstrip(s))

LowerChar(c) ==
    CASE c = "A" -> "a" [] c = "B" -> "b" [] c = "D" -> "d" [] c = "E" -> "e"
      [] c = "N" -> "n" [] c = "O" -> "o" [] c = "S" -> "s" [] c = "Y" -> "y"
      [] OTHER -> c

\* str.lower()
lower(s) == [i \in 1..Len(s) |-> LowerChar(s[i])]

STR_pending == <<"p", "e", "n", "d", "i", "n", "g">>
STR_in_progress == <<"i", "n", "_", "p", "r", "o", "g", "r", "e", "s", "s">>
STR_completed == <<"c", "o", "m", "p", "l", "e", "t", "e", "d">>
STR_blocked == <<"b", "l", "o", "c", "k", "e", "d">>

STR_reset == <<"r", "e", "s", "e", "t">>
STR_add == <<"a", "d", "d">>
STR_update == <<"u", "p", "d", "a", "t", "e">>
STR_remove == <<"r", "e", "m", "o", "v", "e">>
STR_show == <<"s", "h", "o", "w">>

\* a faulty variant: done passes for a status
allowed_statuses_and_done ==
    {STR_pending, STR_in_progress, STR_completed, STR_blocked, <<"d", "o", "n", "e">>}

\* plan.py:12-17, the keys of PLAN_STATUS_MARKERS
allowed_statuses == {STR_pending, STR_in_progress, STR_completed, STR_blocked}

----------------------------------------------------------------------------
(* plan_manager, src/elliot/plan.py *)

\* item_id as the caller passes it: None, an int or a str
NoneId == [type |-> "NoneType", val |-> 0, text |-> <<>>]
IntId(n) == [type |-> "int", val |-> n, text |-> <<>>]
StrId(s) == [type |-> "str", val |-> 0, text |-> s]

Digits == <<"0", "1", "2", "3", "4", "5", "6", "7", "8", "9">>

IsDigit(c) == \E d \in 1..Len(Digits) : Digits[d] = c

DigitVal(c) == (CHOOSE d \in 1..Len(Digits) : Digits[d] = c) - 1

\* str.isdigit()
isdigit(s) == s # <<>> /\ \A i \in 1..Len(s) : IsDigit(s[i])

\* int(s) of a string of digits
RECURSIVE int(_)
int(s) == IF s = <<>> THEN 0 ELSE 10 * int(SubSeq(s, 1, Len(s) - 1)) + DigitVal(s[Len(s)])

Detail(msg, id, text) == [msg |-> msg, id |-> id, text |-> text]

\* plan.py:65-74
_normalize_id(raw_id) ==
    IF raw_id.type = "NoneType"
    THEN [ok |-> FALSE, id |-> 0,
          err |-> Detail("item_id is required for this action", 0, <<>>)]
    ELSE IF raw_id.type = "str"
    THEN IF ~isdigit(raw_id.text)
         THEN [ok |-> FALSE, id |-> 0,
               err |-> Detail("item_id must be an integer", 0, <<>>)]
         ELSE [ok |-> TRUE, id |-> int(raw_id.text), err |-> Detail("", 0, <<>>)]
    ELSE [ok |-> TRUE, id |-> raw_id.val, err |-> Detail("", 0, <<>>)]

\* the number of history entries the plan holds
RECURSIVE Entries(_)
Entries(plan) ==
    IF plan = <<>> THEN 0 ELSE Len(Head(plan).history) + Entries(Tail(plan))

\* a faulty variant: an id no item has finds the first item
FirstIndex_or_first(plan, target_id) ==
    IF \E k \in 1..Len(plan) : plan[k].id = target_id
    THEN CHOOSE k \in 1..Len(plan) :
            /\ plan[k].id = target_id
            /\ \A j \in 1..(k - 1) : plan[j].id # target_id
    ELSE IF plan = <<>> THEN 0 ELSE 1

\* the index of the first item of the plan with this id, 0 when there is none
\* (the for loops of plan.py:114-115 and 129-130)
FirstIndex(plan, target_id) ==
    IF \E k \in 1..Len(plan) : plan[k].id = target_id
    THEN CHOOSE k \in 1..Len(plan) :
            /\ plan[k].id = target_id
            /\ \A j \in 1..(k - 1) : plan[j].id # target_id
    ELSE 0

\* a faulty variant: the last item leaves the list, whatever the index
Pop_last(plan, index) == SubSeq(plan, 1, Len(plan) - 1)

\* list.pop(index)
Pop(plan, index) ==
    [k \in 1..(Len(plan) - 1) |-> IF k < index THEN plan[k] ELSE plan[k + 1]]

\* plan.py:12-17
PLAN_STATUS_MARKERS ==
    (STR_pending :> "[ ]") @@ (STR_in_progress :> "[~]")
       @@ (STR_completed :> "[x]") @@ (STR_blocked :> "[!]")

\* a faulty variant: the line shows the first reason of the history
_render_line_first_reason(item) ==
    [marker |-> IF item.status \in DOMAIN PLAN_STATUS_MARKERS
                THEN PLAN_STATUS_MARKERS[item.status] ELSE "[?]",
     id |-> item.id, title |-> item.title, status |-> item.status,
     reason_suffix |-> IF item.history # <<>> THEN item.history[1].reason ELSE <<>>]

\* plan.py:29-37, the line of one item: marker, id, title, status and, when it
\* is not empty, the reason of the last history entry
_render_line(item) ==
    LET last_reason == IF item.history # <<>>
                       THEN item.history[Len(item.history)].reason ELSE <<>>
    IN  [marker |-> IF item.status \in DOMAIN PLAN_STATUS_MARKERS
                    THEN PLAN_STATUS_MARKERS[item.status] ELSE "[?]",
         id |-> item.id, title |-> item.title, status |-> item.status,
         reason_suffix |-> IF Truthy(last_reason) THEN last_reason ELSE <<>>]

\* plan.py:22-39: what _render_plan logs
_render_plan(plan) ==
    IF plan = <<>>
    THEN [head |-> "(plan is empty)", lines |-> <<>>]
    ELSE [head |-> "current plan", lines |-> [k \in 1..Len(plan) |-> _render_line(plan[k])]]

\* plan.py:143-151: what the call emits, in order: the render of the plan if
\* _render_plan ran (render holds it, else it is empty), then the event
\* log_tool_event shows, with the params of the call (plan.py:52-58)
Event(params, outcome, detail, render) ==
    [tool |-> "plan_manager", status |-> outcome, params |-> params,
     detail |-> detail, rendered |-> render # <<>>, render |-> render,
     emitted |-> (IF render # <<>> THEN <<"render">> ELSE <<>>) \o <<"event">>]

\* a faulty variant: a failed call uses up an id
Raise_id_taken(params, detail) ==
    /\ event' = Event(params, "error", detail, <<>>)
    /\ PLAN_ID_COUNTER' = PLAN_ID_COUNTER + 1
    /\ UNCHANGED <<CURRENT_PLAN, issued>>

\* a faulty variant: a failed call leaves an empty plan behind
Raise_plan_cleared(params, detail) ==
    /\ event' = Event(params, "error", detail, <<>>)
    /\ CURRENT_PLAN' = <<>>
    /\ UNCHANGED <<PLAN_ID_COUNTER, issued>>

\* plan.py:146-151: the except branch; nothing is rendered, the error is logged
Raise(params, detail) ==
    /\ event' = Event(params, "error", detail, <<>>)
    /\ UNCHANGED <<CURRENT_PLAN, PLAN_ID_COUNTER, issued>>

\* a faulty variant: the success is logged and the plan is not rendered
Succeed_unrendered(params, detail) == event' = Event(params, "success", detail, <<>>)

\* plan.py:143-145 and 150-151: _render_plan(), then the success event
Succeed(params, detail) ==
    event' = Event(params, "success", detail, <<_render_plan(CURRENT_PLAN')>>)

\* a faulty variant: reset starts the ids over
reset_branch_restarts_ids(params) ==
    /\ CURRENT_PLAN' = <<>>
    /\ PLAN_ID_COUNTER' = 1
    /\ UNCHANGED issued
    /\ Succeed(params, Detail("plan cleared.", 0, <<>>))

\* plan.py:91-93
reset_branch(params) ==
    /\ CURRENT_PLAN' = <<>>
    /\ UNCHANGED <<PLAN_ID_COUNTER, issued>>
    /\ Succeed(params, Detail("plan cleared.", 0, <<>>))

\* a faulty variant: the id taken from the length of the list
new_id_from_length == Len(CURRENT_PLAN) + 1

\* plan.py:97, the value next(PLAN_ID_COUNTER) returns
new_id_value == PLAN_ID_COUNTER

\* a faulty variant: a new item starts in progress
default_status_in_progress(status_value) ==
    IF Truthy(status_value) THEN status_value ELSE STR_in_progress

\* plan.py:101, status_value or "pending"
default_status(status_value) == IF Truthy(status_value) THEN status_value ELSE STR_pending

\* a faulty variant: the first entry records pending, whatever the item starts as
creation_history_pending(status, reason) ==
    IF Truthy(reason) THEN <<[status |-> STR_pending, reason |-> strip(reason)]>> ELSE <<>>

\* a faulty variant: every new item gets a first entry
creation_history_always(status, reason) ==
    <<[status |-> status, reason |-> IF reason = None THEN <<>> ELSE strip(reason)]>>

\* plan.py:102-107, the history a new item starts with
creation_history(status, reason) ==
    IF Truthy(reason) THEN <<[status |-> status, reason |-> strip(reason)]>> ELSE <<>>

\* plan.py:94-109
add_branch(params, status_value) ==
    IF ~Truthy(params.title)
    THEN Raise(params, Detail("title is required to add a plan item", 0, <<>>))
    ELSE LET new_id == new_id_value
             st == default_status(status_value)
             item == [id |-> new_id,
                      title |-> params.title,
                      status |-> st,
                      history |-> creation_history(st, params.reason)]
         IN /\ PLAN_ID_COUNTER <= MaxId
            /\ Entries(CURRENT_PLAN) + Len(item.history) <= MaxEntries
            /\ PLAN_ID_COUNTER' = PLAN_ID_COUNTER + 1
            /\ CURRENT_PLAN' = Append(CURRENT_PLAN, item)
            /\ issued' = Append(issued, new_id)
            /\ Succeed(params, Detail("added plan item #", new_id, <<>>))

\* a faulty variant: the reason is not trimmed before the test
reason_missing_untrimmed(reason) == reason = None \/ reason = <<>>

\* plan.py:112, the test that rejects an update without a reason
reason_missing(reason) == reason = None \/ strip(reason) = <<>>

\* a faulty variant: the entry records the status the item had before the update
update_entry_before(old_status, new_status, reason) ==
    [status |-> old_status, reason |-> strip(reason)]

\* plan.py:120-122, the entry an update appends
update_entry(old_status, new_status, reason) ==
    [status |-> new_status, reason |-> strip(reason)]

\* a faulty variant: the new entry is put in front of the others
appended_in_front(history, entry) == <<entry>> \o history

\* plan.py:120, item["history"].append(entry)
appended(history, entry) == Append(history, entry)

\* a faulty variant: an update without a title clears the title
new_title_or_none(title, old) == IF Truthy(title) THEN title ELSE <<>>

\* plan.py:116-117, the title of the item after the update
new_title(title, old) == IF Truthy(title) THEN title ELSE old

\* plan.py:110-126
update_branch(params, status_value) ==
    \E target \in {_normalize_id(params.item_id)} :
    IF ~target.ok THEN Raise(params, target.err)
    ELSE IF reason_missing(params.reason)
    THEN Raise(params, Detail("reason is required when updating a plan item", 0, <<>>))
    ELSE \E k \in {FirstIndex(CURRENT_PLAN, target.id)} :
         IF k = 0 THEN Raise(params, Detail("plan item not found", target.id, <<>>))
         ELSE LET item == CURRENT_PLAN[k]
                  t == new_title(params.title, item.title)
                  st == IF Truthy(status_value) THEN status_value ELSE item.status
                  h == appended(item.history, update_entry(item.status, st, params.reason))
              IN /\ Entries(CURRENT_PLAN) < MaxEntries
                 /\ CURRENT_PLAN' =
                        [CURRENT_PLAN EXCEPT ![k] =
                            [id |-> item.id, title |-> t, status |-> st, history |-> h]]
                 /\ UNCHANGED <<PLAN_ID_COUNTER, issued>>
                 /\ Succeed(params, Detail("updated plan item #", target.id, <<>>))

\* plan.py:127-135
remove_branch(params) ==
    \E target \in {_normalize_id(params.item_id)} :
    IF ~target.ok THEN Raise(params, target.err)
    ELSE \E k \in {FirstIndex(CURRENT_PLAN, target.id)} :
         IF k = 0 THEN Raise(params, Detail("plan item not found", target.id, <<>>))
         ELSE /\ CURRENT_PLAN' = Pop(CURRENT_PLAN, k)
              /\ UNCHANGED <<PLAN_ID_COUNTER, issued>>
              /\ Succeed(params, Detail("removed plan item #", target.id, <<>>))

\* plan.py:136-137
show_branch(params) ==
    /\ UNCHANGED <<CURRENT_PLAN, PLAN_ID_COUNTER, issued>>
    /\ Succeed(params, Detail("displayed current plan.", 0, <<>>))

\* plan.py:77
normalize_action(action) == lower(strip(IF action = None THEN <<>> ELSE action))

\* a faulty variant: the status argument is dropped
normalize_status_dropped(status) == None

\* plan.py:81-89: the status as validated, None when none is given
normalize_status(status) == IF Truthy(status) THEN lower(strip(status)) ELSE None

NoEvent ==
    [tool |-> "", status |-> "",
     params |-> [action |-> None, title |-> None, item_id |-> NoneId,
                 status |-> None, reason |-> None],
     detail |-> Detail("", 0, <<>>), rendered |-> FALSE, render |-> <<>>, emitted |-> <<>>]

\* a faulty variant: the status is looked at only by the actions that use it
plan_manager_status_late(action, title, item_id, status, reason) ==
    /\ event = NoEvent
    /\ \E normalized_action \in {normalize_action(action)},
          status_value \in {normalize_status(status)},
          params \in {[action |-> action, title |-> title, item_id |-> item_id,
                       status |-> status, reason |-> reason]} :
       IF normalized_action = <<>>
       THEN Raise(params, Detail("action is required", 0, <<>>))
       ELSE IF normalized_action = STR_reset THEN reset_branch(params)
       ELSE IF normalized_action = STR_remove THEN remove_branch(params)
       ELSE IF normalized_action = STR_show THEN show_branch(params)
       ELSE IF status_value # None /\ status_value \notin allowed_statuses
       THEN Raise(params, Detail("invalid status", 0, status_value))
       ELSE IF normalized_action = STR_add THEN add_branch(params, status_value)
       ELSE IF normalized_action = STR_update THEN update_branch(params, status_value)
       ELSE Raise(params, Detail("invalid action", 0, <<>>))

\* plan.py:43-151, one call of the tool up to its log entry.  The orchestrator
\* makes its tool calls one at a time: none starts before the last has returned.
plan_manager(action, title, item_id, status, reason) ==
    /\ event = NoEvent
    /\ \E normalized_action \in {normalize_action(action)},
          status_value \in {normalize_status(status)},
          params \in {[action |-> action, title |-> title, item_id |-> item_id,
                       status |-> status, reason |-> reason]} :
       IF normalized_action = <<>>
       THEN Raise(params, Detail("action is required", 0, <<>>))
       ELSE IF status_value # None /\ status_value \notin allowed_statuses
       THEN Raise(params, Detail("invalid status", 0, status_value))
       ELSE IF normalized_action = STR_reset THEN reset_branch(params)
       ELSE IF normalized_action = STR_add THEN add_branch(params, status_value)
       ELSE IF normalized_action = STR_update THEN update_branch(params, status_value)
       ELSE IF normalized_action = STR_remove THEN remove_branch(params)
       ELSE IF normalized_action = STR_show THEN show_branch(params)
       ELSE Raise(params, Detail("invalid action", 0, <<>>))

\* plan.py:153: the call returns its message to the orchestrator
Return ==
    /\ event # NoEvent
    /\ event' = NoEvent
    /\ UNCHANGED <<CURRENT_PLAN, PLAN_ID_COUNTER, issued, gate, world, spawn, threads, parked, elliot>>

(* The arguments the calls are drawn from *)

STR_Add == <<" ", "A", "d", "d">>
STR_Blocked == <<" ", "B", "l", "o", "c", "k", "e", "d", " ">>
STR_DONE == <<"D", "O", "N", "E">>
STR_r == <<" ", "r", " ">>

AddTitles == {None, <<>>, <<"t">>}
UpdateTitles == {None, <<"u">>}
\* item 1 is named by a string of digits, MaxId + 1 is an id never issued
ItemIds == {NoneId, StrId(<<"1">>), StrId(<<"x">>)} \cup {IntId(n) : n \in 2..(MaxId + 1)}
AddStatuses == {None, <<>>, STR_DONE, STR_Blocked}
UpdateStatuses == {None, STR_DONE, STR_Blocked}
AddReasons == {None, <<" ">>, STR_r}
UpdateReasons == {None, <<>>, <<" ">>, STR_r}
\* a valid and an invalid status, for the branches that never read it
SomeStatuses == {None, STR_DONE}

CallReset ==
    /\ UNCHANGED <<gate, world, spawn, threads, parked, elliot>>
    /\ \E s \in SomeStatuses : plan_manager(STR_reset, None, NoneId, s, None)

CallAdd ==
    /\ UNCHANGED <<gate, world, spawn, threads, parked, elliot>>
    /\ \E t \in AddTitles, s \in AddStatuses, r \in AddReasons :
          plan_manager(STR_Add, t, NoneId, s, r)

CallUpdate ==
    /\ UNCHANGED <<gate, world, spawn, threads, parked, elliot>>
    /\ \E t \in UpdateTitles, i \in ItemIds, s \in UpdateStatuses, r \in UpdateReasons :
          plan_manager(STR_update, t, i, s, r)

CallRemove ==
    /\ UNCHANGED <<gate, world, spawn, threads, parked, elliot>>
    /\ \E i \in ItemIds, s \in SomeStatuses : plan_manager(STR_remove, None, i, s, None)

CallShow ==
    /\ UNCHANGED <<gate, world, spawn, threads, parked, elliot>>
    /\ \E s \in SomeStatuses : plan_manager(STR_show, None, NoneId, s, None)

\* a missing, blank or unknown action
CallOther ==
    /\ UNCHANGED <<gate, world, spawn, threads, parked, elliot>>
    /\ \E a \in {None, <<" ">>, <<"d", "o">>}, s \in SomeStatuses :
          plan_manager(a, <<"t">>, IntId(2), s, STR_r)

(* A short session with the tracker: items are added, taken up and finished *)

STR_write_tests == <<"w", "r", "i", "t", "e", " ", "t", "e", "s", "t", "s">>
STR_starting == <<"s", "t", "a", "r", "t", "i", "n", "g">>

SessionStatuses == {None, STR_in_progress, STR_completed}
SessionIds == {IntId(n) : n \in 1..MaxId}
SessionReasons == {None, <<>>, STR_starting, STR_r}

SessionAdd ==
    /\ UNCHANGED <<gate, world, spawn, threads, parked, elliot>>
    /\ plan_manager(STR_add, STR_write_tests, NoneId, None, None)

SessionUpdate ==
    /\ UNCHANGED <<gate, world, spawn, threads, parked, elliot>>
    /\ \E i \in SessionIds, st \in SessionStatuses, r \in SessionReasons :
          plan_manager(STR_update, None, i, st, r)

SessionNext == SessionAdd \/ SessionUpdate \/ Return

(* Two update calls made in one turn.  plan_manager holds no lock and keeps *)
(* its plan in a module global; whether the runner lets two calls of one    *)
(* turn overlap is not this repository's to say, so both calls are followed *)
(* statement by statement, in every order; one call after the other is      *)
(* among the orders.                                                        *)

Threads == {1, 2}

NoThread ==
    [pc |-> "idle",               \* idle, called, found, stored, read, done
     params |-> NoEvent.params,   \* the arguments of the call
     k |-> 0,                     \* item, the dict the for loop stopped at
     status |-> None,             \* item["status"] as read for the new entry
     outcome |-> ""]              \* success or error, once the call has ended

NoThreads == [t \in Threads |-> NoThread]

\* the runner starts the two calls of one turn
start_updates(item_id, status1, reason1, status2, reason2) ==
    /\ event = NoEvent
    /\ threads = NoThreads
    /\ Entries(CURRENT_PLAN) + Cardinality(Threads) <= MaxEntries
    /\ threads' =
          [t \in Threads |->
              [NoThread EXCEPT
                  !.pc = "called",
                  !.params = [action |-> STR_update, title |-> None, item_id |-> item_id,
                              status |-> IF t = 1 THEN status1 ELSE status2,
                              reason |-> IF t = 1 THEN reason1 ELSE reason2]]]
    /\ UNCHANGED <<CURRENT_PLAN, PLAN_ID_COUNTER, issued, event>>

\* plan.py:146-151 in a running call: the error is logged and the call ends
thread_raise(t, detail) ==
    /\ event' = Event(threads[t].params, "error", detail, <<>>)
    /\ threads' = [threads EXCEPT ![t].pc = "done", ![t].outcome = "error"]
    /\ UNCHANGED <<CURRENT_PLAN, PLAN_ID_COUNTER, issued>>

\* plan.py:76-115: the checks of the call and the search for the item
update_lookup(t) ==
    /\ threads[t].pc = "called"
    /\ \E status_value \in {normalize_status(threads[t].params.status)},
          target \in {_normalize_id(threads[t].params.item_id)} :
          IF status_value # None /\ status_value \notin allowed_statuses
          THEN thread_raise(t, Detail("invalid status", 0, status_value))
          ELSE IF ~target.ok THEN thread_raise(t, target.err)
          ELSE IF reason_missing(threads[t].params.reason)
          THEN thread_raise(t, Detail("reason is required when updating a plan item",
                                      0, <<>>))
          ELSE IF FirstIndex(CURRENT_PLAN, target.id) = 0
          THEN thread_raise(t, Detail("plan item not found", target.id, <<>>))
          ELSE /\ threads' = [threads EXCEPT ![t].pc = "found",
                                             ![t].k = FirstIndex(CURRENT_PLAN, target.id)]
               /\ UNCHANGED <<CURRENT_PLAN, PLAN_ID_COUNTER, issued, event>>

\* plan.py:116-119: the title and the status are stored in the item
update_store(t) ==
    /\ threads[t].pc = "found"
    /\ \E status_value \in {normalize_status(threads[t].params.status)} :
          CURRENT_PLAN' =
              [CURRENT_PLAN EXCEPT
                  ![threads[t].k].title =
                      IF Truthy(threads[t].params.title) THEN threads[t].params.title ELSE @,
                  ![threads[t].k].status =
                      IF Truthy(status_value) THEN status_value ELSE @]
    /\ threads' = [threads EXCEPT ![t].pc = "stored"]
    /\ UNCHANGED <<PLAN_ID_COUNTER, issued, event>>

\* plan.py:121: item["status"] is read for the entry to append
update_read(t) ==
    /\ threads[t].pc = "stored"
    /\ threads' = [threads EXCEPT ![t].pc = "read",
                                  ![t].status = CURRENT_PLAN[threads[t].k].status]
    /\ UNCHANGED <<CURRENT_PLAN, PLAN_ID_COUNTER, issued, event>>

\* plan.py:120-126 and 143-151: the entry is appended and the call ends
update_append(t) ==
    /\ threads[t].pc = "read"
    /\ CURRENT_PLAN' =
          [CURRENT_PLAN EXCEPT
              ![threads[t].k].history =
                  Append(@, update_entry(threads[t].status, threads[t].status,
                                         threads[t].params.reason))]
    /\ event' = Event(threads[t].params, "success",
                      Detail("updated plan item #", CURRENT_PLAN[threads[t].k].id, <<>>),
                      <<_render_plan(CURRENT_PLAN')>>)
    /\ threads' = [threads EXCEPT ![t].pc = "done", ![t].outcome = "success"]
    /\ UNCHANGED <<PLAN_ID_COUNTER, issued>>

\* both calls have returned
updates_returned ==
    /\ \A t \in Threads : threads[t].pc = "done"
    /\ threads' = NoThreads
    /\ UNCHANGED <<CURRENT_PLAN, PLAN_ID_COUNTER, issued, event>>

STR_q == <<"q">>
RaceStatuses == {None, STR_DONE, STR_Blocked, STR_completed}
RaceIds == {StrId(<<"1">>), IntId(MaxId), IntId(MaxId + 1)}
RaceReasons == {<<" ">>, STR_r}

\* the plan is filled by add calls made one at a time
RaceAdd ==
    /\ threads = NoThreads
    /\ UNCHANGED <<gate, world, spawn, threads, parked, elliot>>
    /\ \E s \in {None, STR_Blocked} : plan_manager(STR_Add, <<"t">>, NoneId, s, None)

RaceStart ==
    /\ UNCHANGED <<gate, world, spawn, parked, elliot>>
    /\ \E i \in RaceIds, s1 \in RaceStatuses, s2 \in RaceStatuses, r1 \in RaceReasons :
          start_updates(i, s1, r1, s2, STR_q)

ThreadLookup == UNCHANGED <<gate, world, spawn, parked, elliot>> /\ \E t \in Threads : update_lookup(t)
ThreadStore == UNCHANGED <<gate, world, spawn, parked, elliot>> /\ \E t \in Threads : update_store(t)
ThreadRead == UNCHANGED <<gate, world, spawn, parked, elliot>> /\ \E t \in Threads : update_read(t)
ThreadAppend == UNCHANGED <<gate, world, spawn, parked, elliot>> /\ \E t \in Threads : update_append(t)
RaceEnd == UNCHANGED <<gate, world, spawn, parked, elliot>> /\ updates_returned

RaceNext ==
    \/ RaceAdd \/ RaceStart \/ ThreadLookup \/ ThreadStore \/ ThreadRead
    \/ ThreadAppend \/ RaceEnd \/ Return

----------------------------------------------------------------------------
(* The permission gate and the gated tools, src/elliot/tools.py *)

\* input() found no interactive channel
EOF == <<"EOFError">>

STR_y == <<"y">>
STR_yes == <<"y", "e", "s">>

\* a faulty variant: an empty answer counts as yes, and so does a missing channel
confirm_write_action_default_yes(response) ==
    response = EOF \/ lower(strip(response)) \in {<<>>, STR_y, STR_yes}

\* tools.py:19-36 (and main.py:57-74): the value confirm_write_action returns
confirm_write_action(response) ==
    IF response = EOF THEN FALSE ELSE lower(strip(response)) \in {STR_y, STR_yes}

\* tools.py:26-28, 33, 35: the note confirm_write_action logs
ConfirmNote(response) ==
    IF response = EOF THEN "unable to prompt for confirmation (EOF). Denying by default."
    ELSE IF confirm_write_action(response) THEN "permission granted."
    ELSE "permission denied."

RECURSIVE Quotes(_)
Quotes(s) ==
    IF s = <<>> THEN 0 ELSE (IF Head(s) = "\"" THEN 1 ELSE 0) + Quotes(Tail(s))

\* shlex.split raises ValueError on a quotation left open
shlex_raises(s) == Quotes(s) % 2 = 1

\* os.path.isfile: the one file there is
isfile(path) == path = <<"f">>

Step(kind, what, detail) == [kind |-> kind, what |-> what, detail |-> detail]

GateIdle ==
    [pc |-> "idle", tool |-> "", a |-> <<>>, b |-> <<>>, after |-> 0,
     response |-> <<>>, allow |-> "unasked", trace |-> <<>>,
     result |-> [kind |-> "", text |-> ""], world0 |-> [file |-> 0, effects |-> {}]]

WorldInit == [file |-> 0, effects |-> {}]

\* a tool function is entered
Enter(tool, a, b) ==
    [GateIdle EXCEPT !.tool = tool, !.a = a, !.b = b, !.world0 = world]

\* log_tool_event(tool, status, params, detail), then return output_text
Logged(g, status, detail, text) ==
    [g EXCEPT !.pc = "done",
              !.trace = Append(g.trace, Step("event", status, detail)),
              !.result = [kind |-> "returned", text |-> text]]

\* return without a log entry
Returned(g, text) ==
    [g EXCEPT !.pc = "done", !.result = [kind |-> "returned", text |-> text]]

\* an exception leaves the tool function
Raised(g, text) ==
    [g EXCEPT !.pc = "done", !.result = [kind |-> "raised", text |-> text]]

\* confirm_write_action is entered and waits in input()
Prompted(g, description) ==
    [g EXCEPT !.pc = "prompt", !.trace = Append(g.trace, Step("prompt", description, ""))]

\* confirm_write_action has returned
Answered(g, response) ==
    [g EXCEPT !.response = response,
              !.allow = IF confirm_write_action(response) THEN "granted" ELSE "denied",
              !.trace = Append(g.trace,
                               Step("confirm",
                                    IF confirm_write_action(response) THEN "granted"
                                    ELSE "denied",
                                    ConfirmNote(response)))]

\* subprocess.run(command) is called
Ran(g, command) == [g EXCEPT !.trace = Append(g.trace, Step("run", command, ""))]

\* what subprocess.run does: the command exits with 0 or with another code, or
\* it cannot be started and subprocess.run raises
Outcomes == {"ok", "failed", "oserror"}

\* the world after the command: once started it has acted on the repository,
\* whatever code it exits with
Effect(w, command, outcome) ==
    IF outcome = "oserror" THEN w ELSE [w EXCEPT !.effects = @ \cup {command}]

\* a faulty variant: a command that fails is run a second time
RunAndLog_retrying(g, command, outcome) ==
    /\ world' = Effect(world, command, outcome)
    /\ gate' = Logged(IF outcome = "ok" THEN Ran(g, command) ELSE Ran(Ran(g, command), command),
                      IF outcome = "ok" THEN "success" ELSE "error",
                      "", IF outcome = "ok" THEN "output" ELSE "error output")

\* the part of a gated tool after a granted prompt: tools.py:411-436, 464-488,
\* 569-599, 158-190
RunAndLog(g, command, outcome) ==
    /\ world' = Effect(world, command, outcome)
    /\ gate' = Logged(Ran(g, command),
                      IF outcome = "ok" THEN "success" ELSE "error",
                      CASE outcome = "ok" -> "completed successfully"
                        [] outcome = "failed" -> "exited with return code"
                        [] OTHER -> "failed to execute",
                      IF outcome = "ok" THEN "output" ELSE "error output")

(* git_run, tools.py:379-436 *)

\* a faulty variant: once git has been allowed to run, it is not asked for again
git_run_start_remembering(args) ==
    /\ gate.pc = "idle"
    /\ LET g == Enter("git_run", args, <<>>) IN
       IF ~Truthy(args)
       THEN /\ gate' = Logged(g, "error", "no arguments provided", "no arguments provided.")
            /\ UNCHANGED world
       ELSE IF "git" \in world.effects
       THEN RunAndLog(g, "git", "ok")
       ELSE /\ gate' = Prompted(g, "git_run will execute git in a shell.")
            /\ UNCHANGED world

git_run_start(args) ==
    /\ gate.pc = "idle"
    /\ UNCHANGED world
    /\ LET g == Enter("git_run", args, <<>>) IN
       IF ~Truthy(args)
       THEN gate' = Logged(g, "error", "no arguments provided", "no arguments provided.")
       ELSE IF shlex_raises(args)
       THEN gate' = Logged(g, "error", "unable to parse arguments",
                           "unable to parse arguments")
       ELSE gate' = Prompted(g, "git_run will execute git in a shell.")

\* a faulty variant: the answer is asked for and not looked at
git_run_resume_ungated(response, outcome) ==
    /\ gate.pc = "prompt" /\ gate.tool = "git_run"
    /\ RunAndLog(Answered(gate, response), "git", outcome)

git_run_resume(response, outcome) ==
    /\ gate.pc = "prompt" /\ gate.tool = "git_run"
    /\ LET g == Answered(gate, response) IN
       IF g.allow # "granted"
       THEN /\ gate' = Logged(g, "skipped", "write permission denied",
                              "write permission denied.")
            /\ UNCHANGED world
       ELSE RunAndLog(g, "git", outcome)

(* python_run, tools.py:439-488 *)

python_run_start(code) ==
    /\ gate.pc = "idle"
    /\ UNCHANGED world
    /\ LET g == Enter("python_run", code, <<>>) IN
       IF ~Truthy(code)
       THEN gate' = Logged(g, "error", "no code provided", "no code provided.")
       ELSE gate' = Prompted(g, "python_run will execute the following Python code")

python_run_resume(response, outcome) ==
    /\ gate.pc = "prompt" /\ gate.tool = "python_run"
    /\ LET g == Answered(gate, response) IN
       IF g.allow # "granted"
       THEN /\ gate' = Logged(g, "skipped", "execution denied", "execution denied.")
            /\ UNCHANGED world
       ELSE RunAndLog(g, "python", outcome)

(* ruff_format, tools.py:542-599 *)

ruff_format_start(targets) ==
    /\ gate.pc = "idle"
    /\ UNCHANGED world
    /\ LET g == Enter("ruff_format", targets, <<>>) IN
       IF ~Truthy(targets) \/ strip(targets) = <<>>
       THEN gate' = Logged(g, "error", "no targets provided", "no targets provided.")
       ELSE gate' = Prompted(g, "ruff_format will execute ruff format and may modify files.")

ruff_format_resume(response, outcome) ==
    /\ gate.pc = "prompt" /\ gate.tool = "ruff_format"
    /\ LET g == Answered(gate, response) IN
       IF g.allow # "granted"
       THEN /\ gate' = Logged(g, "skipped", "write permission denied",
                              "write permission denied.")
            /\ UNCHANGED world
       ELSE IF shlex_raises(g.a)
       \* tools.py:567: shlex.split is outside the try
       THEN /\ gate' = Raised(g, "ValueError")
            /\ UNCHANGED world
       ELSE RunAndLog(g, "ruff format", outcome)

(* ast_grep_run_rewrite, tools.py:106-190 *)

ast_grep_run_rewrite_start(pattern, rewrite) ==
    /\ gate.pc = "idle"
    /\ UNCHANGED world
    /\ LET g == Enter("ast_grep_run_rewrite", pattern, rewrite) IN
       IF ~Truthy(pattern) \/ strip(pattern) = <<>>
       THEN gate' = Logged(g, "error", "no pattern provided", "no pattern provided.")
       ELSE IF ~Truthy(rewrite) \/ strip(rewrite) = <<>>
       THEN gate' = Logged(g, "error", "no rewrite provided", "no rewrite provided.")
       ELSE gate' = Prompted(g, "ast_grep_run_rewrite will modify files in-place using ast-grep.")

ast_grep_run_rewrite_resume(response, outcome) ==
    /\ gate.pc = "prompt" /\ gate.tool = "ast_grep_run_rewrite"
    /\ LET g == Answered(gate, response) IN
       IF g.allow # "granted"
       THEN /\ gate' = Logged(g, "skipped", "write permission denied",
                              "write permission denied.")
            /\ UNCHANGED world
       ELSE RunAndLog(g, "ast-grep rewrite", outcome)

(* sed_write, tools.py:334-376 *)

\* the contents the one file can have
Contents == {0, 1}

\* sed is run on the file before the prompt, to show the diff (tools.py:347-366);
\* after is what sed prints
sed_write_start(path, command, outcome, after) ==
    /\ gate.pc = "idle"
    /\ UNCHANGED world
    /\ LET g == Enter("sed_write", path, command) IN
       IF ~Truthy(path) \/ ~isfile(path)
       THEN gate' = Returned(g, "error: invalid path.")
       ELSE IF ~Truthy(command)
       THEN gate' = Returned(g, "error: no sed command provided.")
       ELSE IF outcome = "oserror"
       THEN gate' = Raised(Ran(g, "sed"), "OSError")
       ELSE IF outcome = "failed"
       THEN gate' = Returned(Ran(g, "sed"), "sed failed")
       ELSE IF after = world.file
       THEN gate' = Returned(Ran(g, "sed"), "no changes detected.")
       ELSE gate' = Prompted([Ran(g, "sed") EXCEPT !.after = after], "Apply above diff?")

sed_write_resume(response) ==
    /\ gate.pc = "prompt" /\ gate.tool = "sed_write"
    /\ LET g == Answered(gate, response) IN
       IF g.allow # "granted"
       THEN /\ gate' = Returned(g, "edit cancelled.")
            /\ UNCHANGED world
       ELSE /\ world' = [world EXCEPT !.file = g.after]
            /\ gate' = Returned([g EXCEPT !.trace = Append(@, Step("write", "file", ""))],
                                "edit applied successfully.")

\* the tool's result goes back to the agent that called it
GateReturn ==
    /\ gate.pc = "done"
    /\ gate' = GateIdle
    /\ UNCHANGED world

(* The arguments and answers the invocations are drawn from *)

GitArgs == {<<>>, <<"\"">>, <<"l", "o", "g">>}
Codes == {<<>>, <<"x">>}
Targets == {<<>>, <<" ">>, <<"\"">>, <<".">>}
Patterns == {<<>>, <<" ">>, <<"p">>}
Rewrites == {<<>>, <<" ">>, <<"q">>}
Paths == {<<>>, <<"d">>, <<"f">>}
Commands == {<<>>, <<"s">>}
Responses == {EOF, <<>>, <<"n">>, <<"y">>, <<" ", "Y", "E", "S", " ">>, <<"y", "e", "p">>}

GitStart == UNCHANGED <<planVars, spawn, parked, elliot>> /\ \E x \in GitArgs : git_run_start(x)
GitResume ==
    /\ UNCHANGED <<planVars, spawn, parked, elliot>>
    /\ \E r \in Responses, o \in Outcomes : git_run_resume(r, o)
PythonStart == UNCHANGED <<planVars, spawn, parked, elliot>> /\ \E x \in Codes : python_run_start(x)
PythonResume ==
    /\ UNCHANGED <<planVars, spawn, parked, elliot>>
    /\ \E r \in Responses, o \in Outcomes : python_run_resume(r, o)
RuffStart == UNCHANGED <<planVars, spawn, parked, elliot>> /\ \E x \in Targets : ruff_format_start(x)
RuffResume ==
    /\ UNCHANGED <<planVars, spawn, parked, elliot>>
    /\ \E r \in Responses, o \in Outcomes : ruff_format_resume(r, o)
RewriteStart ==
    /\ UNCHANGED <<planVars, spawn, parked, elliot>>
    /\ \E x \in Patterns, y \in Rewrites : ast_grep_run_rewrite_start(x, y)
RewriteResume ==
    /\ UNCHANGED <<planVars, spawn, parked, elliot>>
    /\ \E r \in Responses, o \in Outcomes : ast_grep_run_rewrite_resume(r, o)
SedStart ==
    /\ UNCHANGED <<planVars, spawn, parked, elliot>>
    /\ \E x \in Paths, y \in Commands, o \in Outcomes, c \in Contents :
          sed_write_start(x, y, o, c)
SedResume == UNCHANGED <<planVars, spawn, parked, elliot>> /\ \E r \in Responses : sed_write_resume(r)
GateDone == UNCHANGED <<planVars, spawn, parked, elliot>> /\ GateReturn

GateNext ==
    \/ GitStart \/ GitResume \/ PythonStart \/ PythonResume \/ RuffStart \/ RuffResume
    \/ RewriteStart \/ RewriteResume \/ SedStart \/ SedResume \/ GateDone

----------------------------------------------------------------------------
(* The sub-agent dispatcher: src/elliot/agent.py *)

MaxTools == 2      \* longest requested tools list
MaxTurns == 3      \* largest max_turns requested

MaxParked == 1     \* most spawn_subagent calls waiting while another runs

\* a faulty variant: the registry also offers the plan tracker
SUBAGENT_TOOLS_with_plan_manager ==
    [ code_search |-> "ast_grep_run_search",
      code_rewrite |-> "ast_grep_run_rewrite",
      list_dir |-> "list_directory",
      file_tail |-> "tail",
      read_slice |-> "read_slice",
      sed_inplace_edit |-> "sed_write",
      ask_expert |-> "ask_expert",
      git_command |-> "git_run",
      python_run |-> "python_run",
      ruff_check |-> "ruff_check",
      ruff_format |-> "ruff_format",
      ask_user |-> "ask_user",
      plan_manager |-> "plan_manager" ]

\* a faulty variant: the registry also offers the dispatcher
SUBAGENT_TOOLS_with_spawn_subagent ==
    [ code_search |-> "ast_grep_run_search",
      code_rewrite |-> "ast_grep_run_rewrite",
      list_dir |-> "list_directory",
      file_tail |-> "tail",
      read_slice |-> "read_slice",
      sed_inplace_edit |-> "sed_write",
      ask_expert |-> "ask_expert",
      git_command |-> "git_run",
      python_run |-> "python_run",
      ruff_check |-> "ruff_check",
      ruff_format |-> "ruff_format",
      ask_user |-> "ask_user",
      spawn_subagent |-> "spawn_subagent" ]

\* the registry, tool name -> function tool
SUBAGENT_TOOLS ==
    [ code_search |-> "ast_grep_run_search",
      code_rewrite |-> "ast_grep_run_rewrite",
      list_dir |-> "list_directory",
      file_tail |-> "tail",
      read_slice |-> "read_slice",
      sed_inplace_edit |-> "sed_write",
      ask_expert |-> "ask_expert",
      git_command |-> "git_run",
      python_run |-> "python_run",
      ruff_check |-> "ruff_check",
      ruff_format |-> "ruff_format",
      ask_user |-> "ask_user" ]

\* the registry's keys in insertion order
SUBAGENT_TOOL_KEYS ==
    <<"code_search", "code_rewrite", "list_dir", "file_tail",
      "read_slice", "sed_inplace_edit", "ask_expert", "git_command",
      "python_run", "ruff_check", "ruff_format", "ask_user">>

\* the characters of the registry's names, in code point order
Chars ==
    <<"_", "a", "b", "c", "d", "e", "f", "g", "h", "i", "j", "k", "l", "m",
      "n", "o", "p", "q", "r", "s", "t", "u", "v", "w", "x", "y", "z">>

ord(c) == CHOOSE n \in 1..Len(Chars) : Chars[n] = c

\* the names spelled out, for comparison
Spelling ==
    [ code_search |-> <<"c", "o", "d", "e", "_", "s", "e", "a", "r", "c", "h">>,
      code_rewrite |-> <<"c", "o", "d", "e", "_", "r", "e", "w", "r", "i", "t", "e">>,
      list_dir |-> <<"l", "i", "s", "t", "_", "d", "i", "r">>,
      file_tail |-> <<"f", "i", "l", "e", "_", "t", "a", "i", "l">>,
      read_slice |-> <<"r", "e", "a", "d", "_", "s", "l", "i", "c", "e">>,
      sed_inplace_edit |-> <<"s", "e", "d", "_", "i", "n", "p", "l", "a", "c", "e", "_", "e", "d", "i", "t">>,
      ask_expert |-> <<"a", "s", "k", "_", "e", "x", "p", "e", "r", "t">>,
      git_command |-> <<"g", "i", "t", "_", "c", "o", "m", "m", "a", "n", "d">>,
      python_run |-> <<"p", "y", "t", "h", "o", "n", "_", "r", "u", "n">>,
      ruff_check |-> <<"r", "u", "f", "f", "_", "c", "h", "e", "c", "k">>,
      ruff_format |-> <<"r", "u", "f", "f", "_", "f", "o", "r", "m", "a", "t">>,
      ask_user |-> <<"a", "s", "k", "_", "u", "s", "e", "r">> ]

\* Python's str.__lt__ on two spelled-out strings
RECURSIVE StrLess(_, _)
StrLess(a, b) ==
    IF b = <<>> THEN FALSE
    ELSE IF a = <<>> THEN TRUE
    ELSE IF Head(a) # Head(b) THEN ord(Head(a)) < ord(Head(b))
    ELSE StrLess(Tail(a), Tail(b))

Less(x, y) == StrLess(Spelling[x], Spelling[y])

RECURSIVE Insert(_, _)
Insert(x, sortedSeq) ==
    IF sortedSeq = <<>> THEN <<x>>
    ELSE IF Less(x, Head(sortedSeq)) THEN <<x>> \o sortedSeq
    ELSE <<Head(sortedSeq)>> \o Insert(x, Tail(sortedSeq))

\* sorted(SUBAGENT_TOOLS): the keys in ascending order
RECURSIVE sorted(_)
sorted(keys) == IF keys = <<>> THEN <<>> ELSE Insert(Head(keys), sorted(Tail(keys)))

IsUnknown(tool) == tool \notin DOMAIN SUBAGENT_TOOLS

first_unknown_tool(tools) ==
    IF \E n \in 1..Len(tools) : IsUnknown(tools[n])
    THEN <<tools[CHOOSE n \in 1..Len(tools) :
                   IsUnknown(tools[n]) /\ \A m \in 1..(n - 1) : ~IsUnknown(tools[m])]>>
    ELSE <<>>
\* [tool for tool in tools if tool not in SUBAGENT_TOOLS]
unknown_tools(tools) == SelectSeq(tools, IsUnknown)

Agent_with_every_tool(tools) ==
    [tools |-> [n \in 1..Len(SUBAGENT_TOOL_KEYS) |-> SUBAGENT_TOOLS[SUBAGENT_TOOL_KEYS[n]]]]
\* Agent(..., tools=[SUBAGENT_TOOLS[tool] for tool in tools])
Agent(tools) == [tools |-> [n \in 1..Len(tools) |-> SUBAGENT_TOOLS[tools[n]]]]

NoLog == [status |-> "", detail |-> ""]
NoResult == [kind |-> "", error |-> "", unknown |-> <<>>, available |-> <<>>, output |-> ""]

SpawnIdle ==
    [ pc |-> "idle",           \* idle, running (inside Runner.run), done
      depth |-> 0,             \* how many spawn_subagent calls deep the worker is
      tools |-> <<>>,          \* the tools argument
      max_turns |-> 0,         \* the max_turns argument
      subagent |-> <<>>,       \* the Agent constructed, if any
      announced |-> FALSE,     \* the "spawning sub-agent" note was logged
      turns |-> 0,             \* turns the runner has taken
      invoked |-> {},          \* function tools the worker has called
      exhausted |-> FALSE,     \* the run stopped for lack of turns
      printed |-> FALSE,       \* the final output was printed
      run |-> "",              \* how Runner.run ended: returned, raised, interrupted
      trace |-> <<>>,          \* what the call has logged and how it ended, in order
      log |-> NoLog,           \* what log_tool_event recorded
      result |-> NoResult ]    \* what the call returned or raised

ValueError(unknown, available) ==
    [NoResult EXCEPT !.kind = "raised", !.error = "ValueError",
                     !.unknown = unknown, !.available = available]

\* spawn_subagent up to the await of Runner.run, called depth calls deep
spawned(tools, max_turns, depth) ==
    LET unknown == unknown_tools(tools)
    IN  IF unknown # <<>>
        THEN [SpawnIdle EXCEPT !.pc = "done", !.depth = depth, !.tools = tools,
                               !.max_turns = max_turns,
                               !.result = ValueError(unknown, sorted(SUBAGENT_TOOL_KEYS))]
        ELSE [SpawnIdle EXCEPT !.pc = "running", !.depth = depth, !.tools = tools,
                               !.max_turns = max_turns,
                               !.subagent = <<Agent(tools)>>,
                               !.announced = TRUE,
                               !.trace = <<"spawning sub-agent", "Runner.run">>]

\* the orchestrator calls spawn_subagent (agent.py:104, its tools)
spawn_subagent_start(tools, max_turns) ==
    /\ spawn.pc = "idle"
    /\ spawn' = spawned(tools, max_turns, 1)

\* what the worker asks of its tools
WorkerTitles == {<<"w">>}
WorkerTools == {<<"list_dir">>, <<"spawn_subagent">>}

\* one turn of the runner in which the worker calls one of its tools: the
\* tools of tools.py work on files and subprocesses and leave the plan alone;
\* plan_manager and spawn_subagent are the two tools of the orchestrator
\* (agent.py:104), and do in a worker's hands what they do in its own
runner_tool_turn(tool) ==
    /\ spawn.pc = "running"
    /\ spawn.turns < spawn.max_turns
    /\ \E n \in 1..Len(spawn.subagent[1].tools) : spawn.subagent[1].tools[n] = tool
    /\ \E turned \in {[spawn EXCEPT !.turns = @ + 1, !.invoked = @ \cup {tool}]} :
          IF tool = "plan_manager"
          THEN /\ \E title \in WorkerTitles : plan_manager(STR_add, title, NoneId, None, None)
               /\ spawn' = turned
               /\ UNCHANGED <<threads, parked>>
          ELSE IF tool = "spawn_subagent"
          THEN /\ Len(parked) < MaxParked
               /\ parked' = Append(parked, turned)
               /\ \E tools \in WorkerTools : spawn' = spawned(tools, 1, spawn.depth + 1)
               /\ UNCHANGED planVars
          ELSE /\ spawn' = turned
               /\ UNCHANGED <<planVars, parked>>

\* Runner.run returned: the rest of spawn_subagent
spawn_subagent_returned(final_output, turns, exhausted) ==
    spawn' = [spawn EXCEPT !.pc = "done", !.turns = turns, !.exhausted = exhausted,
                           !.run = "returned",
                           !.trace = @ \o <<"log_tool_event">>
                                       \o (IF final_output # "" THEN <<"print">> ELSE <<>>)
                                       \o <<"return">>,
                           !.log = [status |-> "success",
                                    detail |-> "sub-agent completed successfully"],
                           !.printed = (final_output # ""),
                           !.result = [NoResult EXCEPT !.kind = "returned",
                                                       !.output = final_output]]

\* a faulty variant: the failure is logged and an empty result returned
spawn_subagent_swallowed(error, exhausted) ==
    spawn' = [spawn EXCEPT !.pc = "done", !.exhausted = exhausted,
                           !.run = "raised",
                           !.trace = @ \o <<"log_tool_event", "return">>,
                           !.log = [status |-> "error", detail |-> "sub-agent failed"],
                           !.result = [NoResult EXCEPT !.kind = "returned"]]

\* Runner.run raised: the except and finally clauses, and the re-raise
spawn_subagent_raised(error, exhausted) ==
    spawn' = [spawn EXCEPT !.pc = "done", !.exhausted = exhausted,
                           !.run = "raised",
                           !.trace = @ \o <<"log_tool_event", "raise">>,
                           !.log = [status |-> "error", detail |-> "sub-agent failed"],
                           !.result = [NoResult EXCEPT !.kind = "raised", !.error = error]]

\* Runner.run is left by an exception that is no Exception (CancelledError,
\* KeyboardInterrupt): the except clause is passed over, so status is still
\* "success" and detail None when the finally clause logs; the exception goes on
spawn_subagent_interrupted(error) ==
    spawn' = [spawn EXCEPT !.pc = "done",
                           !.run = "interrupted",
                           !.trace = @ \o <<"log_tool_event", "raise">>,
                           !.log = [status |-> "success", detail |-> ""],
                           !.result = [NoResult EXCEPT !.kind = "raised", !.error = error]]

\* the run is cancelled or interrupted while spawn_subagent waits for it
runner_interrupted(error) ==
    /\ spawn.pc = "running"
    /\ spawn_subagent_interrupted(error)

\* a turn in which the worker gives its final output
runner_final_turn(final_output) ==
    /\ spawn.pc = "running"
    /\ spawn.turns < spawn.max_turns
    /\ spawn_subagent_returned(final_output, spawn.turns + 1, FALSE)

\* a turn in which the model call or a tool fails
runner_failed_turn ==
    /\ spawn.pc = "running"
    /\ spawn.turns < spawn.max_turns
    /\ spawn_subagent_raised("Exception", FALSE)

\* the turn budget is used up and the worker has given no final output: the
\* runner (not part of this repository) either raises or hands back what it has
runner_exhausted(how, partial) ==
    /\ spawn.pc = "running"
    /\ spawn.turns >= spawn.max_turns
    /\ IF how = "raise"
       THEN spawn_subagent_raised("MaxTurnsExceeded", TRUE)
       ELSE spawn_subagent_returned(partial, spawn.turns, TRUE)

spawn_subagent_done ==
    /\ spawn.pc = "done"
    /\ spawn' = SpawnIdle

ToolNames == {"git_command", "list_dir", "does_not_exist", "plan_manager", "spawn_subagent"}
ToolLists == UNION {[1..n -> ToolNames] : n \in 0..MaxTools}
\* max_turns is any int: none is refused
TurnBudgets == (-1)..MaxTurns
FinalOutputs == {"", "final"}
PartialOutputs == {"", "partial"}
Exhaustions == {"raise", "return"}
Interruptions == {"CancelledError", "KeyboardInterrupt"}

SpawnStart ==
    /\ UNCHANGED <<planVars, gateVars, parked, elliot>>
    /\ \E tools \in ToolLists, max_turns \in TurnBudgets : spawn_subagent_start(tools, max_turns)
SpawnToolTurn ==
    /\ UNCHANGED <<gateVars, elliot>>
    /\ \E tool \in {SUBAGENT_TOOLS[k] : k \in DOMAIN SUBAGENT_TOOLS} : runner_tool_turn(tool)
SpawnFinalTurn ==
    /\ UNCHANGED <<planVars, gateVars, parked, elliot>>
    /\ \E final_output \in FinalOutputs : runner_final_turn(final_output)
SpawnFailedTurn == UNCHANGED <<planVars, gateVars, parked, elliot>> /\ runner_failed_turn
SpawnExhausted ==
    /\ UNCHANGED <<planVars, gateVars, parked, elliot>>
    /\ \E how \in Exhaustions, partial \in PartialOutputs : runner_exhausted(how, partial)
SpawnInterrupted ==
    /\ UNCHANGED <<planVars, gateVars, parked, elliot>>
    /\ \E error \in Interruptions : runner_interrupted(error)
SpawnDone == UNCHANGED <<planVars, gateVars, parked, elliot>> /\ spawn_subagent_done

SpawnNext ==
    \/ SpawnStart \/ SpawnToolTurn \/ SpawnFinalTurn \/ SpawnFailedTurn
    \/ SpawnExhausted \/ SpawnInterrupted \/ SpawnDone

(* Several workers at once.  spawn_subagent is a coroutine: while one call  *)
(* waits at its await (agent.py:60) the orchestrator's other tool calls of  *)
(* the same turn go on, another spawn_subagent call among them.             *)

\* the call in progress reaches its await and lets another go on
spawn_subagent_waits ==
    /\ spawn.pc = "running"
    /\ Len(parked) < MaxParked
    /\ parked' = Append(parked, spawn)
    /\ spawn' = SpawnIdle

\* a waiting call goes on
spawn_subagent_goes_on(n) ==
    /\ spawn.pc = "idle"
    /\ n \in 1..Len(parked)
    /\ spawn' = parked[n]
    /\ parked' = SubSeq(parked, 1, n - 1) \o SubSeq(parked, n + 1, Len(parked))

TeamTools == {<<"list_dir">>, <<"git_command", "list_dir">>, <<"plan_manager">>, <<"spawn_subagent">>}
TeamBudgets == 1..2

TeamStart ==
    /\ UNCHANGED <<planVars, gateVars, parked, elliot>>
    /\ \E tools \in TeamTools, max_turns \in TeamBudgets : spawn_subagent_start(tools, max_turns)
TeamFinalTurn == UNCHANGED <<planVars, gateVars, parked, elliot>> /\ runner_final_turn("final")
TeamWaits == UNCHANGED <<planVars, gateVars, elliot>> /\ spawn_subagent_waits
TeamGoesOn ==
    /\ UNCHANGED <<planVars, gateVars, elliot>>
    /\ \E n \in 1..MaxParked : spawn_subagent_goes_on(n)

TeamNext ==
    \/ TeamStart \/ SpawnToolTurn \/ TeamFinalTurn \/ SpawnFailedTurn \/ SpawnExhausted
    \/ SpawnDone
    \/ TeamWaits \/ TeamGoesOn
    \/ SessionAdd \/ Return

(* The runs of the orchestrator in one process, src/elliot/agent.py:109-114 *)

\* the ids of the items of a plan
Ids(plan) == [k \in 1..Len(plan) |-> plan[k].id]

NoRun == [pc |-> "idle", found |-> <<>>]

\* run_elliot up to Runner.run_sync: the agent is created and the run begins;
\* found is what the run finds in CURRENT_PLAN, which nothing has cleared
run_elliot_start ==
    /\ elliot.pc = "idle"
    /\ event = NoEvent
    /\ elliot' = [pc |-> "running", found |-> Ids(CURRENT_PLAN)]

\* run_elliot returns the final output
run_elliot_return ==
    /\ elliot.pc = "running"
    /\ event = NoEvent
    /\ elliot' = NoRun

RunStart == UNCHANGED <<planVars, gateVars, spawn, parked>> /\ run_elliot_start
RunReturn == UNCHANGED <<planVars, gateVars, spawn, parked>> /\ run_elliot_return
RunAdd == elliot.pc = "running" /\ SessionAdd
RunUpdate == elliot.pc = "running" /\ SessionUpdate
RunRemove == elliot.pc = "running" /\ CallRemove

ProcessNext == RunStart \/ RunReturn \/ RunAdd \/ RunUpdate \/ RunRemove \/ Return

(* The tools and the dispatcher together, one invocation at a time *)

KernelNext ==
    \/ spawn.pc = "idle" /\ GateNext
    \/ gate.pc = "idle" /\ SpawnNext

Init ==
    /\ CURRENT_PLAN = <<>>
    /\ PLAN_ID_COUNTER = 1
    /\ issued = <<>>
    /\ event = NoEvent
    /\ gate = GateIdle
    /\ world = WorldInit
    /\ spawn = SpawnIdle
    /\ threads = NoThreads
    /\ parked = <<>>
    /\ elliot = NoRun

PlanNext ==
    CallReset \/ CallAdd \/ CallUpdate \/ CallRemove \/ CallShow \/ CallOther \/ Return

\* the plan tracker alone
PlanSpec == Init /\ [][PlanNext]_vars

\* the gated tools alone
GateSpec == Init /\ [][GateNext]_vars

\* the plan tracker in a short session
SessionSpec == Init /\ [][SessionNext]_vars

\* the plan tracker with two update calls made in one turn
RaceSpec == Init /\ [][RaceNext]_vars

\* the sub-agent dispatcher alone
SpawnSpec == Init /\ [][SpawnNext]_vars

\* the orchestrator with several workers at once
TeamSpec == Init /\ [][TeamNext]_vars

\* the runs of the orchestrator in one process
ProcessSpec == Init /\ [][ProcessNext]_vars

\* the gated tools and the dispatcher
KernelSpec == Init /\ [][KernelNext]_vars

----------------------------------------------------------------------------
(* The plan tracker's properties *)

Range(f) == {f[x] : x \in DOMAIN f}

\* what the caller is told went wrong (spec 7): an unknown id is a NotFoundError,
\* every other ValueError of plan_manager is a ValidationError
ErrorKind(detail) ==
    IF detail.msg = "plan item not found" THEN "NotFoundError" ELSE "ValidationError"

\* the index in the plan of the item an item_id names, 0 when it names none
Named(plan, item_id) ==
    IF _normalize_id(item_id).ok THEN FirstIndex(plan, _normalize_id(item_id).id) ELSE 0

\* a reason that is absent, empty or only white space
Blank(reason) == reason = None \/ \A n \in 1..Len(reason) : reason[n] = " "

\* this step is a call of plan_manager with the given action
Calls(action) ==
    /\ event = NoEvent
    /\ event'.tool = "plan_manager"
    /\ normalize_action(event'.params.action) = action

\* the last call, whose result has not been taken yet, was of this action
Called(action) ==
    /\ event.tool = "plan_manager"
    /\ normalize_action(event.params.action) = action

\* C1: the ids returned by successful add calls are strictly increasing in call
\* order, so none is assigned twice, whatever was removed or reset in between;
\* the ids of the items of the plan are among them, each once.
C1_IdsStrictlyIncreasing ==
    /\ \A i, j \in 1..Len(issued) : i < j => issued[i] < issued[j]
    /\ \A k \in 1..Len(CURRENT_PLAN) :
          /\ CURRENT_PLAN[k].id \in Range(issued)
          /\ \A j \in 1..Len(CURRENT_PLAN) :
                CURRENT_PLAN[j].id = CURRENT_PLAN[k].id => j = k

\* C1: an add has succeeded after the item with the first id was removed or reset
C1_Witness ==
    /\ Called(STR_add) /\ event.status = "success"
    /\ Len(issued) >= 2
    /\ \A k \in 1..Len(CURRENT_PLAN) : CURRENT_PLAN[k].id # issued[1]

\* C2: a successful reset leaves the plan empty and the id counter as it was,
\* above every id issued, and every successful add returns an id above every id
\* issued before it, those issued before a reset included.
C2_ResetKeepsCounter ==
    [][/\ (Calls(STR_reset) /\ event'.status = "success") =>
             /\ CURRENT_PLAN' = <<>>
             /\ \A i \in 1..Len(issued) : new_id_value' > issued[i]
       /\ (Calls(STR_add) /\ event'.status = "success") =>
             /\ event'.detail.msg = "added plan item #"
             /\ issued' = Append(issued, event'.detail.id)
             /\ \A i \in 1..Len(issued) : event'.detail.id > issued[i]]_vars

\* C2: a reset has succeeded after ids were issued, and the counter is above them
C2_Witness ==
    /\ Called(STR_reset) /\ event.status = "success"
    /\ Len(issued) = 2
    /\ CURRENT_PLAN = <<>>
    /\ PLAN_ID_COUNTER > issued[2]

\* C3: an update whose reason is absent, empty or blank fails with a validation
\* error whatever title, status and item_id it carries, and changes no item.
C3_UpdateNeedsReason ==
    [][(Calls(STR_update) /\ Blank(event'.params.reason)) =>
          /\ event'.status = "error"
          /\ ErrorKind(event'.detail) = "ValidationError"
          /\ CURRENT_PLAN' = CURRENT_PLAN]_vars

\* C3: an update with a white-space reason, a new title and a valid status, naming
\* an item of the plan, was refused
C3_Witness ==
    /\ Called(STR_update)
    /\ event.params.reason = <<" ">>
    /\ Truthy(event.params.title)
    /\ normalize_status(event.params.status) \in allowed_statuses
    /\ Named(CURRENT_PLAN, event.params.item_id) # 0
    /\ event.status = "error"

\* the history of item k grew by exactly one entry, which carries the status the
\* item has after the step
AppendedOne(k) ==
    /\ Len(CURRENT_PLAN') = Len(CURRENT_PLAN)
    /\ Len(CURRENT_PLAN'[k].history) = Len(CURRENT_PLAN[k].history) + 1
    /\ SubSeq(CURRENT_PLAN'[k].history, 1, Len(CURRENT_PLAN[k].history))
          = CURRENT_PLAN[k].history
    /\ CURRENT_PLAN'[k].history[Len(CURRENT_PLAN'[k].history)].status
          = CURRENT_PLAN'[k].status

----------------------------------------------------------------------------
(* The permission gate's properties *)

\* the commands and the write the gate guards: git, python, ruff format, the
\* ast-grep rewrite, and the replacement of the file sed_write edits
UnderlyingRuns == {"git", "python", "ruff format", "ast-grep rewrite"}

Underlying(step) ==
    \/ step.kind = "run" /\ step.what \in UnderlyingRuns
    \/ step.kind = "write"

\* what a tool returns when permission was refused
DeniedTexts == {"write permission denied.", "execution denied.", "edit cancelled."}

\* the tools that log their outcome with log_tool_event
LoggingTools == {"git_run", "python_run", "ruff_format", "ast_grep_run_rewrite"}

Events(trace) == {n \in 1..Len(trace) : trace[n].kind = "event"}

\* C5: when confirm returns false the invocation ends denied (logged as skipped
\* by the tools that log), none of the guarded commands has been run and the
\* file has not been replaced, and what they act on is as it was when the
\* invocation began.
C5_DeniedNothingRuns ==
    (gate.pc = "done" /\ gate.allow = "denied") =>
        /\ gate.result.kind = "returned"
        /\ gate.result.text \in DeniedTexts
        /\ \A n \in Events(gate.trace) : gate.trace[n].what = "skipped"
        /\ gate.tool \in LoggingTools => Events(gate.trace) # {}
        /\ \A n \in 1..Len(gate.trace) : ~Underlying(gate.trace[n])
        /\ world = gate.world0

\* C5: git_run was refused after an earlier, granted, git command had run
C5_Witness ==
    /\ gate.pc = "done" /\ gate.allow = "denied"
    /\ gate.tool = "git_run"
    /\ "git" \in gate.world0.effects

\* C6: confirm_write_action grants only on an answer that is y or yes once
\* trimmed and lower-cased; with no interactive channel (EOF) the invocation is
\* denied: nothing guarded runs and no success is logged or returned.
C6_FailClosed ==
    /\ gate.allow = "granted" =>
          /\ gate.response # EOF
          /\ lower(strip(gate.response)) \in {STR_y, STR_yes}
    /\ (gate.allow # "unasked" /\ gate.response = EOF) =>
          /\ gate.allow = "denied"
          /\ \A n \in 1..Len(gate.trace) :
                /\ ~Underlying(gate.trace[n])
                /\ gate.trace[n].kind = "event" => gate.trace[n].what = "skipped"
          /\ gate.result.text \in DeniedTexts

\* C6: a gated invocation has ended with no interactive channel to ask
C6_Witness ==
    /\ gate.pc = "done"
    /\ gate.allow = "denied"
    /\ gate.response = EOF
    /\ gate.tool = "python_run"

\* C7 as stated: within an invocation no external command is started and no
\* file is written before confirm has returned true in that invocation.
C7_AsStated ==
    \A n \in 1..Len(gate.trace) :
        gate.trace[n].kind \in {"run", "write"} =>
            \E m \in 1..(n - 1) :
                gate.trace[m].kind = "confirm" /\ gate.trace[m].what = "granted"

----------------------------------------------------------------------------
(* The sub-agent dispatcher's properties *)

Handles(tools) == {SUBAGENT_TOOLS[tools[n]] : n \in {m \in 1..Len(tools) : ~IsUnknown(tools[m])}}

Ascending(names) ==
    \A n \in 1..Len(names) : \A m \in (n + 1)..Len(names) : Less(names[n], names[m])

\* C8: a spawn_subagent call naming a tool the registry lacks raises before an
\* Agent is constructed, announced or run and before any tool is called; the
\* error carries every unknown name requested and nothing else, and
\* every registry name exactly once in ascending order.
C8_UnknownToolsRejected ==
    /\ spawn.subagent # <<>> => \A n \in 1..Len(spawn.tools) : ~IsUnknown(spawn.tools[n])
    /\ (spawn.pc = "done" /\ \E n \in 1..Len(spawn.tools) : IsUnknown(spawn.tools[n])) =>
          /\ spawn.result.kind = "raised"
          /\ spawn.result.error = "ValueError"
          /\ spawn.subagent = <<>>
          /\ ~spawn.announced
          /\ spawn.turns = 0
          /\ spawn.invoked = {}
          /\ spawn.log = NoLog
          /\ \A n \in 1..Len(spawn.tools) :
                IsUnknown(spawn.tools[n]) =>
                    \E m \in 1..Len(spawn.result.unknown) :
                        spawn.result.unknown[m] = spawn.tools[n]
          /\ \A m \in 1..Len(spawn.result.unknown) : IsUnknown(spawn.result.unknown[m])
          /\ {spawn.result.available[m] : m \in 1..Len(spawn.result.available)}
                = DOMAIN SUBAGENT_TOOLS
          /\ Ascending(spawn.result.available)

\* C8: a request naming a valid tool and two different unknown ones was rejected
C8_Witness ==
    /\ spawn.pc = "done"
    /\ spawn.result.kind = "raised"
    /\ Len(spawn.tools) = 2
    /\ spawn.tools[1] = "plan_manager"
    /\ spawn.tools[2] = "does_not_exist"
    /\ Len(spawn.result.unknown) = 2

\* C9: the Agent constructed holds exactly the registry's function tools for
\* the names requested, and every tool the worker calls is the registry's
\* function tool of a requested name.
C9_CapabilityContainment ==
    /\ spawn.subagent # <<>> =>
          {spawn.subagent[1].tools[n] : n \in 1..Len(spawn.subagent[1].tools)}
              = Handles(spawn.tools)
    /\ spawn.invoked \subseteq Handles(spawn.tools)

\* C9: a worker given git_command alone has called it and finished
C9_Witness ==
    /\ spawn.pc = "done"
    /\ spawn.tools = <<"git_command">>
    /\ spawn.invoked = {"git_run"}
    /\ spawn.result.kind = "returned"

\* C10 as stated: a run that stops for lack of turns returns its partial output
\* as a normal result after at most max_turns turns, and what is logged differs
\* from what a full completion logs.
C10_AsStated ==
    (spawn.pc = "done" /\ spawn.exhausted) =>
        /\ spawn.turns <= spawn.max_turns
        /\ spawn.result.kind = "returned"
        /\ spawn.log.status = "success"
        /\ spawn.log.detail # "sub-agent completed successfully"

\* C11 as stated: a spawn_subagent call with max_turns zero or negative is
\* refused with an error before an Agent is constructed, announced or run.
C11_AsStated ==
    (spawn.pc # "idle" /\ spawn.max_turns <= 0) =>
        /\ spawn.pc = "done"
        /\ spawn.result.kind = "raised"
        /\ spawn.subagent = <<>>
        /\ ~spawn.announced
        /\ spawn.run = ""

\* the places of the log_tool_event calls in what the call did
LogEvents(trace) == {n \in 1..Len(trace) : trace[n] = "log_tool_event"}

\* C12: when Runner.run raises, spawn_subagent logs one event, with status
\* error and the failure as its detail, and then lets the exception out: the
\* call ends by raising, after the event, and returns and prints nothing.
C12_FailurePropagates ==
    spawn.run = "raised" =>
        /\ spawn.pc = "done"
        /\ spawn.result.kind = "raised"
        /\ spawn.result.output = ""
        /\ ~spawn.printed
        /\ spawn.log = [status |-> "error", detail |-> "sub-agent failed"]
        /\ Cardinality(LogEvents(spawn.trace)) = 1
        /\ spawn.trace[Len(spawn.trace)] = "raise"
        /\ \A n \in LogEvents(spawn.trace) : n = Len(spawn.trace) - 1
        /\ \A n \in 1..Len(spawn.trace) : spawn.trace[n] \notin {"return", "print"}

\* C12: a worker that had called a tool failed in a later turn
C12_Witness ==
    /\ spawn.run = "raised"
    /\ spawn.result.error = "Exception"
    /\ spawn.invoked # {}
    /\ spawn.turns >= 1

----------------------------------------------------------------------------
(* The plan tracker under calls made at the same time *)

\* both calls have ended, and both were good updates of the same item of the plan
BothUpdated ==
    /\ \A t \in Threads : threads[t].pc = "done" /\ threads[t].outcome = "success"
    /\ threads[1].k = threads[2].k

----------------------------------------------------------------------------
(* The plan tracker's histories, statuses and frame *)

\* the index in the plan of the item with this id, 0 when no item has it
IndexOf(plan, id) ==
    IF \E k \in 1..Len(plan) : plan[k].id = id
    THEN CHOOSE k \in 1..Len(plan) : plan[k].id = id
    ELSE 0

IsPrefix(s, t) == Len(s) <= Len(t) /\ SubSeq(t, 1, Len(s)) = s

\* this step is a call of plan_manager
CallsPlanManager == event = NoEvent /\ event'.tool = "plan_manager"

\* C14: across every step, the history of each item that is in the plan before
\* and after it is a prefix of its history afterwards; an item's history goes
\* only with the item, in a remove of that item or in a reset.
C14_HistoryAppendOnly ==
    [][/\ \A k \in 1..Len(CURRENT_PLAN) :
             LET j == IndexOf(CURRENT_PLAN', CURRENT_PLAN[k].id)
             IN IF j # 0
                THEN IsPrefix(CURRENT_PLAN[k].history, CURRENT_PLAN'[j].history)
                ELSE /\ event'.status = "success"
                     /\ \/ Calls(STR_reset)
                        \/ /\ Calls(STR_remove)
                           /\ Named(CURRENT_PLAN, event'.params.item_id) = k]_vars

\* C14: an update has appended to a history that held an entry already, in a
\* plan of two items
C14_Witness ==
    /\ Called(STR_update) /\ event.status = "success"
    /\ Len(CURRENT_PLAN) = 2
    /\ \E k \in 1..Len(CURRENT_PLAN) :
          /\ CURRENT_PLAN[k].id = event.detail.id
          /\ Len(CURRENT_PLAN[k].history) = 2
          /\ CURRENT_PLAN[k].history[1].reason # CURRENT_PLAN[k].history[2].reason

\* the history lengths of the items of the plan, by id
Lengths(plan) == {<<plan[k].id, Len(plan[k].history)>> : k \in 1..Len(plan)}

\* C15: every step changes the number of entries of an item as the count of
\* its creation reason and its successful updates does.  A successful add
\* creates an item with one entry, carrying its initial status, when a reason
\* is supplied and with none otherwise, and touches no other item; a successful
\* update adds one entry to the item it names and none elsewhere; a successful
\* remove takes one item and appends nothing; show and every failed call leave
\* every history as it was.
C15_EntriesCountChanges ==
    [][CallsPlanManager =>
          IF event'.status # "success" \/ Calls(STR_show)
          THEN CURRENT_PLAN' = CURRENT_PLAN
          ELSE IF Calls(STR_add)
          THEN LET item == CURRENT_PLAN'[Len(CURRENT_PLAN')]
               IN /\ CURRENT_PLAN' = Append(CURRENT_PLAN, item)
                  /\ Len(item.history) = IF event'.params.reason \in {None, <<>>} THEN 0 ELSE 1
                  /\ \A n \in 1..Len(item.history) : item.history[n].status = item.status
          ELSE IF Calls(STR_update)
          THEN \E k \in 1..Len(CURRENT_PLAN) :
                  /\ CURRENT_PLAN[k].id = event'.detail.id
                  /\ Lengths(CURRENT_PLAN') =
                        (Lengths(CURRENT_PLAN)
                            \ {<<CURRENT_PLAN[k].id, Len(CURRENT_PLAN[k].history)>>})
                        \cup {<<CURRENT_PLAN[k].id, Len(CURRENT_PLAN[k].history) + 1>>}
          ELSE IF Calls(STR_remove)
          THEN /\ Len(CURRENT_PLAN') = Len(CURRENT_PLAN) - 1
               /\ Lengths(CURRENT_PLAN') \subseteq Lengths(CURRENT_PLAN)
          ELSE CURRENT_PLAN' = <<>>]_vars

\* C15: an item was added with a status and a reason and has its one entry, next
\* to an item added without a reason
C15_Witness ==
    /\ Called(STR_add) /\ event.status = "success"
    /\ event.params.reason = STR_r
    /\ Len(CURRENT_PLAN) = 2
    /\ CURRENT_PLAN[1].history = <<>>
    /\ CURRENT_PLAN[2].history = <<[status |-> STR_blocked, reason |-> <<"r">>]>>

\* C16: an add whose title is absent or empty fails with a validation error,
\* issues no id and leaves the plan as it was; an add with a title and with no
\* status succeeds and puts at the end of the plan an item with that title and
\* the status pending.
C16_AddNeedsTitle ==
    [][Calls(STR_add) =>
          /\ event'.params.title \in {None, <<>>} =>
                /\ event'.status = "error"
                /\ ErrorKind(event'.detail) = "ValidationError"
                /\ CURRENT_PLAN' = CURRENT_PLAN
                /\ PLAN_ID_COUNTER' = PLAN_ID_COUNTER
                /\ issued' = issued
          /\ (event'.params.title \notin {None, <<>>}
              /\ event'.params.status \in {None, <<>>}) =>
                /\ event'.status = "success"
                /\ Len(CURRENT_PLAN') = Len(CURRENT_PLAN) + 1
                /\ SubSeq(CURRENT_PLAN', 1, Len(CURRENT_PLAN)) = CURRENT_PLAN
                /\ CURRENT_PLAN'[Len(CURRENT_PLAN')].title = event'.params.title
                /\ CURRENT_PLAN'[Len(CURRENT_PLAN')].status = STR_pending]_vars

\* C16: an add with an empty title, a good status and a reason was refused, on a
\* plan that holds an item
C16_Witness ==
    /\ Called(STR_add)
    /\ event.params.title = <<>>
    /\ event.params.status = STR_Blocked
    /\ event.params.reason = STR_r
    /\ event.status = "error"
    /\ event.detail.msg = "title is required to add a plan item"
    /\ Len(CURRENT_PLAN) = 1

\* the one item of the plan of scenario A, with the given status and history
WriteTests(status, history) ==
    <<[id |-> 1, title |-> STR_write_tests, status |-> status, history |-> history]>>

Starting == <<[status |-> STR_in_progress, reason |-> STR_starting]>>

\* C17: scenario A.  On the tracker as created, add('write tests') succeeds with
\* id 1 and leaves one item, pending, with no history; on that plan,
\* update(1, status='in_progress', reason='starting') succeeds and leaves the
\* item in progress with one history entry; on that plan, update(1, reason='')
\* fails with a validation error and leaves the plan as it was.
C17_ScenarioA ==
    [][/\ (/\ CURRENT_PLAN = <<>> /\ PLAN_ID_COUNTER = 1
           /\ Calls(STR_add)
           /\ event'.params.title = STR_write_tests
           /\ event'.params.status = None
           /\ event'.params.reason = None) =>
              /\ event'.status = "success"
              /\ event'.detail.id = 1
              /\ CURRENT_PLAN' = WriteTests(STR_pending, <<>>)
       /\ (/\ CURRENT_PLAN = WriteTests(STR_pending, <<>>)
           /\ Calls(STR_update)
           /\ event'.params.item_id = IntId(1)
           /\ event'.params.status = STR_in_progress
           /\ event'.params.reason = STR_starting) =>
              /\ event'.status = "success"
              /\ CURRENT_PLAN' = WriteTests(STR_in_progress, Starting)
              /\ Len(CURRENT_PLAN'[1].history) = 1
       /\ (/\ CURRENT_PLAN = WriteTests(STR_in_progress, Starting)
           /\ Calls(STR_update)
           /\ event'.params.item_id = IntId(1)
           /\ event'.params.reason = <<>>) =>
              /\ event'.status = "error"
              /\ ErrorKind(event'.detail) = "ValidationError"
              /\ CURRENT_PLAN' = WriteTests(STR_in_progress, Starting)]_vars

\* C17: the third call of scenario A has been refused
C17_Witness ==
    /\ Called(STR_update)
    /\ event.params.item_id = IntId(1)
    /\ event.params.status = None
    /\ event.params.reason = <<>>
    /\ event.status = "error"
    /\ issued = <<1>>
    /\ CURRENT_PLAN = WriteTests(STR_in_progress, Starting)

\* the item_id of this call is a well-formed id that no item of the plan has
NamesNoItem(plan, item_id) ==
    _normalize_id(item_id).ok /\ \A k \in 1..Len(plan) : plan[k].id # _normalize_id(item_id).id

\* C18 as stated: every update and every remove whose id no item of the plan
\* has fails with a not-found error and leaves the plan as it was.
C18_AsStated ==
    [][((Calls(STR_update) \/ Calls(STR_remove))
        /\ NamesNoItem(CURRENT_PLAN, event'.params.item_id)) =>
          /\ event'.status = "error"
          /\ ErrorKind(event'.detail) = "NotFoundError"
          /\ CURRENT_PLAN' = CURRENT_PLAN]_vars

\* C18: an update or remove whose id no item of the plan has, be it an id
\* never issued or that of an item removed or reset away, fails and leaves the
\* plan as it was.  The error is the not-found error, naming the id, when the
\* call is otherwise good: its status is absent or recognised and, for an
\* update, its reason is not blank; otherwise it is the validation error of the
\* bad status or of the missing reason.
C18_UnknownIdFails ==
    [][((Calls(STR_update) \/ Calls(STR_remove))
        /\ NamesNoItem(CURRENT_PLAN, event'.params.item_id)) =>
          /\ event'.status = "error"
          /\ CURRENT_PLAN' = CURRENT_PLAN
          /\ PLAN_ID_COUNTER' = PLAN_ID_COUNTER
          /\ IF /\ \/ ~Truthy(event'.params.status)
                   \/ lower(strip(event'.params.status)) \in
                         {STR_pending, STR_in_progress, STR_completed, STR_blocked}
                /\ Calls(STR_update) => ~Blank(event'.params.reason)
             THEN /\ ErrorKind(event'.detail) = "NotFoundError"
                  /\ event'.detail.id = _normalize_id(event'.params.item_id).id
             ELSE ErrorKind(event'.detail) = "ValidationError"]_vars

\* C18: an update with a reason, naming an item that was removed earlier while
\* another item stays in the plan, was refused as not found
C18_Witness ==
    /\ Called(STR_update)
    /\ event.status = "error"
    /\ event.detail.msg = "plan item not found"
    /\ event.detail.id \in Range(issued)
    /\ ~Blank(event.params.reason)
    /\ Len(CURRENT_PLAN) = 1

\* the statuses a plan item may have
Recognised == {STR_pending, STR_in_progress, STR_completed, STR_blocked}

\* C19: in every state every item of the plan, and every entry of its history,
\* has a status among pending, in_progress, completed and blocked; an add or an
\* update that carries a status which, trimmed and lower-cased, is none of
\* these fails with a validation error, issues no id and changes no item.
C19_StatusesRecognised ==
    /\ [](\A k \in 1..Len(CURRENT_PLAN) :
             /\ CURRENT_PLAN[k].status \in Recognised
             /\ \A n \in 1..Len(CURRENT_PLAN[k].history) :
                   CURRENT_PLAN[k].history[n].status \in Recognised)
    /\ [][((Calls(STR_add) \/ Calls(STR_update))
           /\ event'.params.status \notin {None, <<>>}
           /\ lower(strip(event'.params.status)) \notin Recognised) =>
             /\ event'.status = "error"
             /\ ErrorKind(event'.detail) = "ValidationError"
             /\ CURRENT_PLAN' = CURRENT_PLAN
             /\ PLAN_ID_COUNTER' = PLAN_ID_COUNTER]_vars

\* C19: an update that was good but for its status, naming an item of the plan,
\* was refused
C19_Witness ==
    /\ Called(STR_update)
    /\ event.params.status = STR_DONE
    /\ ~Blank(event.params.reason)
    /\ Named(CURRENT_PLAN, event.params.item_id) # 0
    /\ event.status = "error"
    /\ event.detail.msg = "invalid status"

\* C20: a successful update leaves the plan as long as it was and every item
\* but the one it names as it was; the item it names keeps its place and its
\* id, keeps its title unless a title is given and its status unless a status
\* is given, and takes the title and the status that are given; no id is issued.
C20_UpdateFrame ==
    [][(Calls(STR_update) /\ event'.status = "success") =>
          \E k \in 1..Len(CURRENT_PLAN) :
             /\ k = Named(CURRENT_PLAN, event'.params.item_id)
             /\ Len(CURRENT_PLAN') = Len(CURRENT_PLAN)
             /\ \A j \in 1..Len(CURRENT_PLAN) : j # k => CURRENT_PLAN'[j] = CURRENT_PLAN[j]
             /\ CURRENT_PLAN'[k].id = CURRENT_PLAN[k].id
             /\ CURRENT_PLAN'[k].title =
                   IF event'.params.title \in {None, <<>>}
                   THEN CURRENT_PLAN[k].title
                   ELSE event'.params.title
             /\ CURRENT_PLAN'[k].status =
                   IF event'.params.status \in {None, <<>>}
                   THEN CURRENT_PLAN[k].status
                   ELSE lower(strip(event'.params.status))
             /\ PLAN_ID_COUNTER' = PLAN_ID_COUNTER
             /\ issued' = issued]_vars

\* C20: an update with a reason alone has succeeded on the second of two items,
\* which was blocked and still is
C20_Witness ==
    /\ Called(STR_update) /\ event.status = "success"
    /\ event.params.title = None
    /\ event.params.status = None
    /\ Len(CURRENT_PLAN) = 2
    /\ Named(CURRENT_PLAN, event.params.item_id) = 2
    /\ CURRENT_PLAN[2].status = STR_blocked
    /\ CURRENT_PLAN[2].title = <<"t">>
    /\ CURRENT_PLAN[1].status = STR_pending

\* C21: a successful remove takes out of the plan exactly the item it names:
\* the items before it and the items after it stay as they were (id, title,
\* status and history) and in the same order, and no id is issued.
C21_RemoveFrame ==
    [][(Calls(STR_remove) /\ event'.status = "success") =>
          \E k \in 1..Len(CURRENT_PLAN) :
             /\ k = Named(CURRENT_PLAN, event'.params.item_id)
             /\ Len(CURRENT_PLAN') = Len(CURRENT_PLAN) - 1
             /\ \A j \in 1..(k - 1) : CURRENT_PLAN'[j] = CURRENT_PLAN[j]
             /\ \A j \in (k + 1)..Len(CURRENT_PLAN) : CURRENT_PLAN'[j - 1] = CURRENT_PLAN[j]
             /\ \A j \in 1..Len(CURRENT_PLAN') :
                   CURRENT_PLAN'[j].id # _normalize_id(event'.params.item_id).id
             /\ PLAN_ID_COUNTER' = PLAN_ID_COUNTER
             /\ issued' = issued]_vars

\* C21: the first of two items has been removed; the item that is left is the
\* second one issued, with the history it had
C21_Witness ==
    /\ Called(STR_remove) /\ event.status = "success"
    /\ _normalize_id(event.params.item_id).id = 1
    /\ Len(issued) = 2
    /\ Len(CURRENT_PLAN) = 1
    /\ CURRENT_PLAN[1].id = 2
    /\ Len(CURRENT_PLAN[1].history) > 0

\* C22 as stated: an invocation that has returned or raised has logged exactly
\* one tool event, whose status is success, skipped or error.
C22_AsStated ==
    gate.pc = "done" =>
        /\ Cardinality(Events(gate.trace)) = 1
        /\ \A n \in Events(gate.trace) : gate.trace[n].what \in {"success", "skipped", "error"}

----------------------------------------------------------------------------
(* The properties of the orchestrator and its workers *)

\* the spawn_subagent calls in progress: the one going on and the waiting ones
Workers == (IF spawn.pc = "idle" THEN {} ELSE {spawn}) \cup Range(parked)

\* the function tools a worker holds
Held(w) == IF w.subagent = <<>> THEN {} ELSE Range(w.subagent[1].tools)

\* this step is taken by a worker or ends or begins a spawn_subagent call
WorkerStep == spawn' # spawn \/ parked' # parked

\* C23: no worker holds plan_manager, a request that names it is refused, and
\* the plan and the id counter change only in a step that is a plan_manager
\* call of the orchestrator and no step of a worker, also while several
\* workers are in progress.
C23_WorkersLeavePlan ==
    /\ [](\A w \in Workers :
             /\ "plan_manager" \notin Held(w)
             /\ (\E n \in 1..Len(w.tools) : w.tools[n] = "plan_manager") =>
                   w.result.error = "ValueError")
    /\ [][(CURRENT_PLAN' # CURRENT_PLAN \/ PLAN_ID_COUNTER' # PLAN_ID_COUNTER
              \/ issued' # issued \/ event' # event) =>
             /\ ~WorkerStep
             /\ CallsPlanManager \/ event' = NoEvent]_vars

\* C23: two workers are in progress, one has called a tool of its own, and the
\* orchestrator has added an item meanwhile
C23_Witness ==
    /\ Len(parked) = 1 /\ spawn.pc = "running"
    /\ parked[1].turns > 0
    /\ Called(STR_add) /\ event.status = "success"
    /\ Len(CURRENT_PLAN) = 1

\* C24: no worker holds spawn_subagent and a request that names it is refused,
\* so every spawn_subagent call is the orchestrator's: no worker is more than
\* one call deep.
C24_DepthAtMostOne ==
    \A w \in Workers :
        /\ "spawn_subagent" \notin Held(w)
        /\ (\E n \in 1..Len(w.tools) : w.tools[n] = "spawn_subagent") =>
              w.result.error = "ValueError"
        /\ w.depth = 1

\* C24: a worker was asked for with spawn_subagent among its tools and refused,
\* while another worker is in progress
C24_Witness ==
    /\ spawn.pc = "done"
    /\ spawn.tools = <<"spawn_subagent">>
    /\ spawn.result.error = "ValueError"
    /\ Len(parked) = 1
    /\ parked[1].depth = 1

\* C25 as stated: every run of the orchestrator starts with an empty plan; no
\* item of an earlier run of the process is there when a run begins.
C25_AsStated == elliot.pc = "running" => elliot.found = <<>>

\* the actions of plan_manager that change the plan
Mutating == {STR_reset, STR_add, STR_update, STR_remove}

\* C26: a successful add, update, remove or reset emits one render, of the
\* plan as the call leaves it, and after it one event, with status success,
\* the parameters of the call (the action among them) and a detail message.
C26_RenderThenEvent ==
    [][(CallsPlanManager /\ normalize_action(event'.params.action) \in Mutating
           /\ event'.status = "success") =>
          /\ event'.emitted = <<"render", "event">>
          /\ Len(event'.render) = 1
          /\ Len(event'.render[1].lines) = Len(CURRENT_PLAN')
          /\ \A k \in 1..Len(CURRENT_PLAN') :
                /\ event'.render[1].lines[k].id = CURRENT_PLAN'[k].id
                /\ event'.render[1].lines[k].status = CURRENT_PLAN'[k].status
          /\ event'.tool = "plan_manager"
          /\ DOMAIN event'.params = {"action", "title", "item_id", "status", "reason"}
          /\ event'.detail.msg # ""]_vars

\* C26: a remove has succeeded and the render shows the one item that is left
C26_Witness ==
    /\ Called(STR_remove) /\ event.status = "success"
    /\ event.emitted = <<"render", "event">>
    /\ Len(CURRENT_PLAN) = 1
    /\ Len(event.render[1].lines) = 1

\* the marker of a status
Marker(status) ==
    CASE status = STR_pending -> "[ ]"
      [] status = STR_in_progress -> "[~]"
      [] status = STR_completed -> "[x]"
      [] status = STR_blocked -> "[!]"
      [] OTHER -> "[?]"

\* C27: the items of the plan are in ascending id order, and a render has one
\* line per item, in the order of the plan, with the item's id, the marker of
\* its status, its title and the reason of its last history entry; the line of
\* an item with no history shows no reason.
C27_RenderLines ==
    /\ \A j, k \in 1..Len(CURRENT_PLAN) : j < k => CURRENT_PLAN[j].id < CURRENT_PLAN[k].id
    /\ event.rendered =>
          /\ Len(event.render[1].lines) = Len(CURRENT_PLAN)
          /\ \A k \in 1..Len(CURRENT_PLAN) :
                LET line == event.render[1].lines[k]
                    item == CURRENT_PLAN[k]
                IN  /\ line.id = item.id
                    /\ line.marker = Marker(item.status)
                    /\ line.title = item.title
                    /\ line.reason_suffix =
                          IF item.history = <<>> THEN <<>>
                          ELSE item.history[Len(item.history)].reason

\* C27: a render of two items: the first has no history and shows no reason,
\* the second shows the reason of the last of its two entries, which is not
\* the reason of the first
C27_Witness ==
    /\ event.rendered
    /\ Len(CURRENT_PLAN) = 2
    /\ CURRENT_PLAN[1].history = <<>>
    /\ event.render[1].lines[1].reason_suffix = <<>>
    /\ Len(CURRENT_PLAN[2].history) = 2
    /\ CURRENT_PLAN[2].history[1].reason # CURRENT_PLAN[2].history[2].reason
    /\ event.render[1].lines[2].reason_suffix = <<"r">>
    /\ event.render[1].lines[2].marker = "[!]"

\* the times the command of a gated tool was run in the invocation
Runs(trace) == {n \in 1..Len(trace) : trace[n].kind = "run"}

\* the times Runner.run was started in the spawn_subagent call
RunnerRuns(trace) == {n \in 1..Len(trace) : trace[n] = "Runner.run"}

\* C28: within one invocation of a gated tool the command is run at most once,
\* whether permission was granted or refused, and exactly once when the
\* invocation has logged the command's success or failure; within one
\* spawn_subagent call
\* Runner.run is started at most once, and exactly once when it has returned
\* or raised.
C28_NoRetries ==
    /\ Cardinality(Runs(gate.trace)) <= 1
    /\ (gate.pc = "done" /\ gate.allow = "granted" /\ gate.result.kind = "returned"
           /\ gate.tool \in LoggingTools) =>
          Cardinality(Runs(gate.trace)) = 1
    /\ Cardinality(RunnerRuns(spawn.trace)) <= 1
    /\ spawn.run \in {"returned", "raised"} => Cardinality(RunnerRuns(spawn.trace)) = 1

\* C28: git_run was granted, its command failed and the failure is logged; an
\* earlier invocation had run git as well
C28_Witness ==
    /\ gate.pc = "done" /\ gate.tool = "git_run" /\ gate.allow = "granted"
    /\ \E n \in Events(gate.trace) : gate.trace[n].what = "error"
    /\ Cardinality(Runs(gate.trace)) = 1
    /\ "git" \in gate.world0.effects

\* C29 as stated: every history entry of every plan item has three fields, the
\* status, the reason and a timestamp.
C29_AsStated ==
    \A k \in 1..Len(CURRENT_PLAN) : \A n \in 1..Len(CURRENT_PLAN[k].history) :
        DOMAIN CURRENT_PLAN[k].history[n] = {"status", "reason", "timestamp"}

\* the actions plan_manager knows
Actions == {STR_reset, STR_add, STR_update, STR_remove, STR_show}

\* the call with these parameters is one the plan, as it is, must refuse
Refused(plan, p) ==
    LET a == normalize_action(p.action)
    IN  \/ a \notin Actions
        \/ Truthy(p.status) /\ lower(strip(p.status)) \notin Recognised
        \/ a = STR_add /\ p.title \in {None, <<>>}
        \/ a \in {STR_update, STR_remove} /\ Named(plan, p.item_id) = 0
        \/ a = STR_update /\ Blank(p.reason)

\* C30: every plan_manager call ends in an event, none in an exception; a call
\* with no action or an unknown one, an unrecognised status, an add without a
\* title, an update or remove without an item_id or with an id no item has,
\* or an update without a reason ends in an error, and no other call does; an
\* error is logged as one event with a message and no render, and leaves the
\* plan, the id counter and the ids issued as they were.
C30_FailuresReported ==
    [][CallsPlanManager =>
          /\ event'.status \in {"success", "error"}
          /\ event'.status = "error" <=> Refused(CURRENT_PLAN, event'.params)
          /\ event'.status = "error" =>
                /\ event'.emitted = <<"event">>
                /\ ~event'.rendered
                /\ event'.detail.msg # ""
                /\ CURRENT_PLAN' = CURRENT_PLAN
                /\ PLAN_ID_COUNTER' = PLAN_ID_COUNTER
                /\ issued' = issued]_vars

\* C30: an update that names an id no item has was refused, and the plan
\* still holds its two items, one of them with a history
C30_Witness ==
    /\ Called(STR_update) /\ event.status = "error"
    /\ event.detail.msg = "plan item not found"
    /\ ~event.rendered
    /\ Len(CURRENT_PLAN) = 2
    /\ CURRENT_PLAN[2].history # <<>>

\* C31 as stated: every history entry of every item has a reason that is not
\* empty once trimmed.
C31_AsStated ==
    \A k \in 1..Len(CURRENT_PLAN) : \A n \in 1..Len(CURRENT_PLAN[k].history) :
        strip(CURRENT_PLAN[k].history[n].reason) # <<>>

\* C32: every item with a history has the status its last history entry
\* records, whenever the calls of plan_manager are made one after another.
C32_StatusIsLastEntry ==
    \A k \in 1..Len(CURRENT_PLAN) :
        CURRENT_PLAN[k].history # <<>> =>
            CURRENT_PLAN[k].status =
                CURRENT_PLAN[k].history[Len(CURRENT_PLAN[k].history)].status

\* C32: an item was added pending with a reason and then updated to blocked;
\* its two entries record the two statuses
C32_Witness ==
    /\ Called(STR_update) /\ event.status = "success"
    /\ Len(CURRENT_PLAN) = 1
    /\ Len(CURRENT_PLAN[1].history) = 2
    /\ CURRENT_PLAN[1].history[1].status = STR_pending
    /\ CURRENT_PLAN[1].history[2].status = STR_blocked
    /\ CURRENT_PLAN[1].status = STR_blocked

\* C33: the k-th successful add returned id k, and the next id to be given is
\* one more than the number of successful adds, whatever calls failed and
\* whatever was removed or reset in between.
C33_IdsGapless ==
    /\ \A k \in 1..Len(issued) : issued[k] = k
    /\ PLAN_ID_COUNTER = Len(issued) + 1

\* C33: after one successful add, whose item is gone again, an add has failed:
\* the next id is still 2
C33_Witness ==
    /\ Called(STR_add) /\ event.status = "error"
    /\ issued = <<1>>
    /\ CURRENT_PLAN = <<>>
    /\ PLAN_ID_COUNTER = 2

\* the place of the first step of this kind in what the call did, 0 if none
Place(trace, what) ==
    IF \E n \in 1..Len(trace) : trace[n] = what
    THEN CHOOSE n \in 1..Len(trace) : trace[n] = what /\ \A m \in 1..(n - 1) : trace[m] # what
    ELSE 0

\* C37 as stated: a spawn_subagent call whose tool names are all known emits
\* the announcement, then runs the worker, then logs one spawn_subagent event,
\* whose status is success if and only if the run returned, and prints the
\* final output only after a success event; a call rejected for its tool names
\* emits neither the announcement nor an event.
C37_AsStated ==
    /\ spawn.result.error = "ValueError" =>
          /\ spawn.trace = <<>>
          /\ ~spawn.announced
          /\ spawn.log = NoLog
    /\ (spawn.pc = "done" /\ spawn.result.error # "ValueError") =>
          /\ Place(spawn.trace, "spawning sub-agent") = 1
          /\ Place(spawn.trace, "Runner.run") = 2
          /\ LogEvents(spawn.trace) = {3}
          /\ spawn.log.status = "success" <=> spawn.run = "returned"
          /\ Place(spawn.trace, "print") \in {0, 4}
          /\ Place(spawn.trace, "print") # 0 => spawn.log.status = "success"

\* the input of the invocation is one the tool has to refuse
InvalidInput(g) ==
    CASE g.tool = "git_run" -> g.a = <<>> \/ shlex_raises(g.a)
      [] g.tool = "python_run" -> g.a = <<>>
      [] g.tool = "ruff_format" -> strip(g.a) = <<>> \/ shlex_raises(g.a)
      [] g.tool = "ast_grep_run_rewrite" -> strip(g.a) = <<>> \/ strip(g.b) = <<>>
      [] g.tool = "sed_write" -> ~isfile(g.a) \/ g.b = <<>>
      [] OTHER -> FALSE

\* C34 as stated: an invocation of a gated tool with invalid input asks for no
\* permission and runs and writes nothing, and ends with an error: an error
\* event from the tools that log, an error text from sed_write.
C34_AsStated ==
    InvalidInput(gate) =>
        /\ \A n \in 1..Len(gate.trace) :
              gate.trace[n].kind \notin {"prompt", "confirm", "run", "write"}
        /\ gate.pc = "done"
        /\ gate.result.kind = "returned"
        /\ gate.tool \in LoggingTools =>
              /\ Cardinality(Events(gate.trace)) = 1
              /\ \A n \in Events(gate.trace) : gate.trace[n].what = "error"
        /\ world = gate.world0

\* the times confirm_write_action was entered, and returned, in the invocation
Prompts(trace) == {n \in 1..Len(trace) : trace[n].kind = "prompt"}
Confirms(trace) == {n \in 1..Len(trace) : trace[n].kind = "confirm"}

\* C35: an invocation asks for permission at most once, and exactly once when
\* it has asked and ended; a guarded command runs, and the file is written,
\* only after confirm returned true in the same invocation, whatever was
\* allowed in the invocations before it.
C35_PermissionPerInvocation ==
    /\ Cardinality(Prompts(gate.trace)) <= 1
    /\ Cardinality(Confirms(gate.trace)) <= 1
    /\ \A n \in Confirms(gate.trace) : \E m \in Prompts(gate.trace) : m < n
    /\ (gate.pc = "done" /\ Prompts(gate.trace) # {}) => Cardinality(Confirms(gate.trace)) = 1
    /\ \A n \in 1..Len(gate.trace) :
          Underlying(gate.trace[n]) =>
             \E m \in Confirms(gate.trace) : m < n /\ gate.trace[m].what = "granted"
    /\ gate.allow = "granted" =>
          /\ gate.response # EOF
          /\ \E m \in Confirms(gate.trace) : gate.trace[m].what = "granted"

\* C35: python_run was asked for after git had been allowed to run, was allowed
\* on its own answer, and has run
C35_Witness ==
    /\ gate.pc = "done" /\ gate.tool = "python_run"
    /\ "git" \in gate.world0.effects
    /\ "python" \notin gate.world0.effects
    /\ gate.allow = "granted"
    /\ Cardinality(Confirms(gate.trace)) = 1
    /\ \E n \in 1..Len(gate.trace) : Underlying(gate.trace[n])

\* C36: a plan_manager call whose status argument is not empty and, trimmed and
\* lower-cased, is none of the four statuses fails for every action, reset,
\* remove and show among them, as an invalid status when an action is given,
\* and leaves the plan, the id counter and the ids issued as they were.
C36_StatusCheckedFirst ==
    [][(CallsPlanManager /\ Truthy(event'.params.status)
           /\ lower(strip(event'.params.status)) \notin Recognised) =>
          /\ event'.status = "error"
          /\ normalize_action(event'.params.action) # <<>> =>
                event'.detail.msg = "invalid status"
          /\ CURRENT_PLAN' = CURRENT_PLAN
          /\ PLAN_ID_COUNTER' = PLAN_ID_COUNTER
          /\ issued' = issued]_vars

\* C36: a remove that names the first of two items carried an unrecognised
\* status and was refused: both items are still there
C36_Witness ==
    /\ Called(STR_remove) /\ event.status = "error"
    /\ event.detail.msg = "invalid status"
    /\ Len(CURRENT_PLAN) = 2
    /\ Named(CURRENT_PLAN, event.params.item_id) = 1

====
